---- MODULE Spec2Model ----
(***************************************************************************)
(* Authentication / session / MFA engine of the finance-manager auth       *)
(* service (services/auth/src/services/auth-service.ts), over the          *)
(* production PrismaAuthRepository defined in the same file.               *)
(*                                                                         *)
(* Every handler of AuthService is a small program whose atomic steps are  *)
(* its repository calls (each `await this.repository.x(...)`).  A step is  *)
(* a pure function  (db, process record, clock, env) -> (db, process       *)
(* record).  Pure awaits that touch no shared state (argon2, jwt, the      *)
(* append-only audit sink, the e-mail outbox) are folded into the          *)
(* repository step they follow.                                            *)
(*                                                                         *)
(* Time is in whole seconds (the code's Date values are milliseconds; all  *)
(* of its TTLs are whole seconds multiplied by 1000).                      *)
(* Random values (uuids, token secrets, TOTP secrets, backup codes) are    *)
(* fresh nonces; argon2 and AES-GCM are collision-free tagged pairs.       *)
(***************************************************************************)
EXTENDS Integers, Sequences, FiniteSets, TLC

VARIABLES
    now,      \* the wall clock, seconds
    env,      \* the Env the service was constructed with
    db,       \* the tables behind the AuthRepository
    procs     \* the requests in flight: one record per request slot

vars == <<now, env, db, procs>>

----------------------------------------------------------------------------
(* Bounds of the model *)

MaxTokens == 2
MaxChallenges == 2
MaxDevices == 1
MaxResetTokens == 1
MaxImportJobs == 2

Procs == {1, 2}
NameSeq == <<"a", "b">>
Names == {NameSeq[i] : i \in DOMAIN NameSeq}
Passwords == {"pw1", "pw2"}
SignupPassword == "pw1"
NewPassword == "pw2"
RememberMe == {FALSE}
StartTime == 30 * 1000
\* The instants the clock shows: the start, just past the life of an MFA
\* challenge, and just past the life of a refresh token and of a remembered
\* device.
Instants == {StartTime, StartTime + 10 * 60 + 1, StartTime + 30 * 24 * 60 * 60 + 1}

----------------------------------------------------------------------------
(* Program constants *)

BACKUP_CODE_COUNT == 8
TotpStepSeconds == 30
TotpWindow == 1
SevenDays == 7 * 24 * 60 * 60

DefaultEnv ==
    [ ACCESS_TOKEN_TTL_SECONDS |-> 60 * 15,
      REFRESH_TOKEN_TTL_SECONDS |-> 60 * 60 * 24 * 30,
      EMAIL_VERIFICATION_TOKEN_TTL_HOURS |-> 24,
      PASSWORD_RESET_TOKEN_TTL_MINUTES |-> 60,
      MFA_CHALLENGE_TTL_SECONDS |-> 10 * 60,
      MFA_MAX_ATTEMPTS |-> 5,
      MFA_REMEMBER_DEVICE_DAYS |-> 30 ]

\* The configurations the service is constructed with: the defaults, and a
\* deployment that overrides MFA_MAX_ATTEMPTS.
EnvChoices == {DefaultEnv, [DefaultEnv EXCEPT !.MFA_MAX_ATTEMPTS = 2]}

----------------------------------------------------------------------------
(* Values *)

NoTime == 0 - 1
EmptyFn == [x \in {} |-> 0]

Put(f, k, v) == [x \in DOMAIN f \cup {k} |-> IF x = k THEN v ELSE f[x]]
Remove(f, K) == [x \in DOMAIN f \ K |-> f[x]]
Min(a, b) == IF a <= b THEN a ELSE b
SetMin(S) == CHOOSE x \in S : \A y \in S : x <= y

\* argon2.hash / argon2.verify: a salted one-way hash that verifies exactly
\* the value it was made from.
Hash(x) == <<"argon2id", x>>
Verify(h, x) == h = Hash(x)

\* encryptSecret / decryptSecret under the one configured key.
encryptSecret(s) == <<"aes-256-gcm", s>>
decryptSecret(p) == p[2]

\* An e-mail address as typed: its normalized text, whether it was typed in
\* upper case, and whether it carries surrounding whitespace.
Email(n, up, pad) == [name |-> n, upper |-> up, padded |-> pad]
NoEmail == Email("", FALSE, FALSE)
\* A normalisation that keeps the surrounding whitespace.
lowerCaseOnly(e) == [e EXCEPT !.upper = FALSE]
\* value.trim().toLowerCase()
normalizeEmail(e) == [e EXCEPT !.upper = FALSE, !.padded = FALSE]

\* A code as typed: its shape (six digits, XXXX-XXXX, anything else), the
\* value it spells and whether its letters were typed in lower case.
Code(shape, v, low) == [shape |-> shape, v |-> v, lower |-> low]
NoCode == Code("none", <<0, 0>>, FALSE)
toUpperCase(c) == [c EXCEPT !.lower = FALSE]

\* generateOtp(secret, counter): the six digits HMAC-SHA1 of the counter
\* under the secret truncates to.
generateOtp(secret, counter) == <<secret, counter>>
TotpCounter(t) == t \div TotpStepSeconds
generateTotp(secret, t) == Code("totp", generateOtp(secret, TotpCounter(t)), FALSE)

\* A verification that looks two steps to either side.
isValidTotpTokenWide(secret, token, t) ==
    /\ token.shape = "totp"
    /\ \E offset \in (0 - TotpWindow - 1)..(TotpWindow + 1) :
          generateOtp(secret, TotpCounter(t) + offset) = token.v

isValidTotpToken(secret, token, t) ==
    /\ token.shape = "totp"
    /\ \E offset \in (0 - TotpWindow)..TotpWindow :
          generateOtp(secret, TotpCounter(t) + offset) = token.v

\* generateBackupCodes(count), upper-cased: the codes of generation g.
generateBackupCodes(g, count) == [i \in 1..count |-> Code("backup", <<g, i>>, FALSE)]
BackupCodeId(g, i) == (g - 1) * BACKUP_CODE_COUNT + i

\* The refresh token value `${id}.${secret}` as its list of segments
\* (0 is the empty segment); the secret of token id is a fresh nonce.
SecretOf(id) == id
RefreshTokenValue(id) == <<id, SecretOf(id)>>

----------------------------------------------------------------------------
(* Records *)

InitDb ==
    [ users |-> EmptyFn,
      refreshTokens |-> EmptyFn,
      emailTokens |-> EmptyFn,
      passwordResetTokens |-> EmptyFn,
      mfaSettings |-> EmptyFn,
      mfaChallenges |-> EmptyFn,
      nextChallengeId |-> 1,
      backupCodes |-> EmptyFn,
      nextBackupGen |-> 1,
      rememberedDevices |-> EmptyFn,
      nextDeviceId |-> 1,
      importJobs |-> EmptyFn ]

NoContext == [has |-> FALSE, rememberMe |-> FALSE]
NoSecret == encryptSecret(0)

NoChallenge ==
    [ id |-> 0, userId |-> 0, userMfaId |-> 0, type |-> "none",
      secretEncrypted |-> NoSecret, context |-> NoContext,
      expiresAt |-> NoTime, consumedAt |-> NoTime, attempts |-> 0 ]

NoArgs ==
    [ email |-> NoEmail, password |-> "", acceptTerms |-> FALSE,
      rememberMe |-> FALSE, challengeId |-> 0, code |-> NoCode,
      rememberDevice |-> FALSE, deviceToken |-> 0, token |-> <<>>,
      resetToken |-> 0, newPassword |-> "", userId |-> 0,
      uploadId |-> 0, idempotencyKey |-> 0 ]

NoLocals ==
    [ userId |-> 0, prev |-> 0, rememberMe |-> FALSE, ret |-> "",
      tokenId |-> 0, mfaId |-> 0, secret |-> 0, matched |-> 0,
      challenge |-> NoChallenge, usingBackupCode |-> FALSE, codeId |-> 0,
      deviceToken |-> 0, mailToken |-> 0 ]

NoResult ==
    [ outcome |-> "", type |-> "", userId |-> 0, tokenId |-> 0,
      challengeId |-> 0, deviceToken |-> 0, backupGen |-> 0,
      requested |-> FALSE, nAudit |-> 0, nEmail |-> 0, jobId |-> 0 ]

IdleProc == [op |-> "idle", pc |-> "idle", a |-> NoArgs, l |-> NoLocals, r |-> NoResult]

Ret(d, p) == [db |-> d, pr |-> p]

\* The handler returns or throws: the request is over.
Finish(d, pr, outcome) ==
    Ret(d, [pr EXCEPT !.pc = "done", !.l = NoLocals, !.r.outcome = outcome])

Goto(d, pr, label) == Ret(d, [pr EXCEPT !.pc = label])

----------------------------------------------------------------------------
(* PrismaAuthRepository: each operator is one repository call *)

UserIdByEmail(d, email) ==
    IF \E u \in DOMAIN d.users : d.users[u].email = email
    THEN CHOOSE u \in DOMAIN d.users : d.users[u].email = email
    ELSE 0

findUserByEmail(d, email) == UserIdByEmail(d, email)

\* user.create + passwordCredential.create in one transaction; the caller
\* has checked the unique e-mail constraint (EmailTaken).
EmailTaken(d, email) == UserIdByEmail(d, email) # 0
NextUserId(d) == Cardinality(DOMAIN d.users) + 1

createUser(d, email, passwordHash) ==
    [d EXCEPT !.users = Put(@, NextUserId(d),
        [ email |-> email, passwordHash |-> passwordHash, status |-> "active",
          emailVerifiedAt |-> NoTime, lastLoginAt |-> NoTime ])]

NextEmailTokenId(d) == Cardinality(DOMAIN d.emailTokens) + 1

saveEmailVerificationToken(d, userId, token, expiresAt) ==
    [d EXCEPT !.emailTokens = Put(@, token,
        [userId |-> userId, expiresAt |-> expiresAt, consumedAt |-> NoTime])]

NextTokenId(d) == Cardinality(DOMAIN d.refreshTokens) + 1

saveRefreshToken(d, id, userId, tokenHash, issuedAt, expiresAt) ==
    [d EXCEPT !.refreshTokens = Put(@, id,
        [ userId |-> userId, tokenHash |-> tokenHash, issuedAt |-> issuedAt,
          expiresAt |-> expiresAt, revokedAt |-> NoTime, replacedByTokenId |-> 0 ])]

\* A revocation that records no successor.
revokeRefreshTokenUnchained(d, id, revokedAt, replacedByTokenId) ==
    [d EXCEPT !.refreshTokens[id].revokedAt = revokedAt]

\* refreshToken.update({ where: { id }, data: { revokedAt, replacedByTokenId } })
revokeRefreshToken(d, id, revokedAt, replacedByTokenId) ==
    [d EXCEPT !.refreshTokens[id].revokedAt = revokedAt,
              !.refreshTokens[id].replacedByTokenId = replacedByTokenId]

\* A revocation that does not look at the owner.
revokeRefreshTokensOfEveryone(d, userId, revokedAt) ==
    [d EXCEPT !.refreshTokens =
        [i \in DOMAIN @ |->
            IF @[i].revokedAt = NoTime
            THEN [@[i] EXCEPT !.revokedAt = revokedAt]
            ELSE @[i]]]

\* refreshToken.updateMany({ where: { userId, revokedAt: null }, data: { revokedAt } })
revokeRefreshTokensForUser(d, userId, revokedAt) ==
    [d EXCEPT !.refreshTokens =
        [i \in DOMAIN @ |->
            IF @[i].userId = userId /\ @[i].revokedAt = NoTime
            THEN [@[i] EXCEPT !.revokedAt = revokedAt]
            ELSE @[i]]]

NextResetTokenId(d) == Cardinality(DOMAIN d.passwordResetTokens) + 1

createPasswordResetToken(d, userId, token, expiresAt) ==
    [d EXCEPT !.passwordResetTokens = Put(@, token,
        [userId |-> userId, expiresAt |-> expiresAt, consumedAt |-> NoTime])]

\* consumePasswordResetToken, first half: findUnique and the checks on what
\* it read.  TRUE when the token may be consumed.
PasswordResetTokenUsable(d, token, consumedAt) ==
    /\ token \in DOMAIN d.passwordResetTokens
    /\ d.passwordResetTokens[token].consumedAt = NoTime
    /\ ~(d.passwordResetTokens[token].expiresAt < consumedAt)

\* consumePasswordResetToken, second half: the update by id.
markPasswordResetTokenConsumed(d, token, consumedAt) ==
    [d EXCEPT !.passwordResetTokens[token].consumedAt = consumedAt]

updatePasswordHash(d, userId, passwordHash) ==
    [d EXCEPT !.users[userId].passwordHash = passwordHash]

updateLastLogin(d, userId, when) ==
    [d EXCEPT !.users[userId].lastLoginAt = when]

\* auditEvent.create: the service writes the audit table and never reads it.
\* Its rows are counted on the request that wrote them (Audited).
createAuditEvent(d, action, userId) == d

\* RecordingEmailService / EmailService: the outbox.
sendEmail(d, kind, userId, token) == d

----------------------------------------------------------------------------
(* MFA tables *)

HasMfa(d, userId) == userId \in DOMAIN d.mfaSettings

\* A test that takes any stored configuration for an enabled one.
StoredMfa(d, userId) == userId \in DOMAIN d.mfaSettings

\* getActiveMfaConfiguration: the configuration, when it exists and its
\* activatedAt is set.
ActiveMfa(d, userId) ==
    HasMfa(d, userId) /\ d.mfaSettings[userId].activatedAt # NoTime

\* userMfaSetting.upsert: update and create write the same columns.
upsertMfaSetting(d, userId, secretEncrypted, activatedAt) ==
    [d EXCEPT !.mfaSettings = Put(@, userId,
        [ id |-> userId, secretEncrypted |-> secretEncrypted,
          activatedAt |-> activatedAt ])]

listMfaBackupCodes(d, userMfaId) ==
    {c \in DOMAIN d.backupCodes : d.backupCodes[c].userMfaId = userMfaId}

\* userMfaSetting.delete({ where: { id } }); the backup codes and the
\* remembered devices of the configuration go with it.
deleteMfaSetting(d, userMfaId) ==
    [d EXCEPT
        !.mfaSettings = Remove(@, {u \in DOMAIN @ : @[u].id = userMfaId}),
        !.backupCodes = Remove(@, {c \in DOMAIN @ : @[c].userMfaId = userMfaId}),
        !.rememberedDevices = Remove(@, {x \in DOMAIN @ : @[x].userMfaId = userMfaId})]

\* A createMany that leaves the prior rows in place.
appendMfaBackupCodes(d, userMfaId, g, codes) ==
    LET fresh == {BackupCodeId(g, i) : i \in DOMAIN codes}
    IN  [d EXCEPT !.backupCodes =
            [c \in DOMAIN @ \cup fresh |->
                IF c \in fresh
                THEN [ userMfaId |-> userMfaId,
                       codeHash |-> Hash(codes[c - BackupCodeId(g, 0)]),
                       usedAt |-> NoTime ]
                ELSE @[c]],
            !.nextBackupGen = g + 1]

\* One transaction: deleteMany for the configuration, then createMany.
replaceMfaBackupCodes(d, userMfaId, g, codes) ==
    LET kept == Remove(d.backupCodes, listMfaBackupCodes(d, userMfaId))
        fresh == {BackupCodeId(g, i) : i \in DOMAIN codes}
    IN  [d EXCEPT !.backupCodes =
            [c \in DOMAIN kept \cup fresh |->
                IF c \in fresh
                THEN [ userMfaId |-> userMfaId,
                       codeHash |-> Hash(codes[c - BackupCodeId(g, 0)]),
                       usedAt |-> NoTime ]
                ELSE kept[c]],
            !.nextBackupGen = g + 1]

\* mfaBackupCode.update({ where: { id }, data: { usedAt } })
markBackupCodeUsed(d, id, when) ==
    [d EXCEPT !.backupCodes[id].usedAt = when]

createMfaChallenge(d, userId, userMfaId, type, secretEncrypted, context, expiresAt) ==
    [d EXCEPT !.mfaChallenges = Put(@, d.nextChallengeId,
        [ id |-> d.nextChallengeId, userId |-> userId, userMfaId |-> userMfaId,
          type |-> type, secretEncrypted |-> secretEncrypted,
          context |-> context, expiresAt |-> expiresAt,
          consumedAt |-> NoTime, attempts |-> 0 ]),
              !.nextChallengeId = @ + 1]

ChallengeExists(d, id) == id \in DOMAIN d.mfaChallenges

findMfaChallengeById(d, id) ==
    IF ChallengeExists(d, id) THEN d.mfaChallenges[id] ELSE NoChallenge

\* An update that loses the counter.
forgetMfaChallengeAttempts(d, id, attempts) == d

\* mfaChallenge.update({ where: { id }, data: { attempts } })
incrementMfaChallengeAttempts(d, id, attempts) ==
    [d EXCEPT !.mfaChallenges[id].attempts = attempts]

\* mfaChallenge.update({ where: { id }, data: { consumedAt: when } })
consumeMfaChallenge(d, id, when) ==
    [d EXCEPT !.mfaChallenges[id].consumedAt = when]

deleteMfaChallenge(d, id) ==
    [d EXCEPT !.mfaChallenges = Remove(@, {id})]

\* A listing that is not restricted to one configuration.
listRememberedDevicesOfAll(d, userMfaId) == DOMAIN d.rememberedDevices

listRememberedDevices(d, userMfaId) ==
    {x \in DOMAIN d.rememberedDevices : d.rememberedDevices[x].userMfaId = userMfaId}

createRememberedDevice(d, userMfaId, tokenHash, expiresAt) ==
    [d EXCEPT !.rememberedDevices = Put(@, d.nextDeviceId,
        [ userMfaId |-> userMfaId, tokenHash |-> tokenHash,
          expiresAt |-> expiresAt, lastUsedAt |-> NoTime ]),
              !.nextDeviceId = @ + 1]

updateRememberedDevice(d, id, lastUsedAt) ==
    [d EXCEPT !.rememberedDevices[id].lastUsedAt = lastUsedAt]

\* A validation that prunes nothing.
keepExpiredRememberedDevices(d, userMfaId, t) == d

\* mfaRememberedDevice.deleteMany({ where: { userMfaId, expiresAt: { lt: now } } })
deleteExpiredRememberedDevices(d, userMfaId, t) ==
    [d EXCEPT !.rememberedDevices =
        Remove(@, {x \in listRememberedDevices(d, userMfaId) :
                      d.rememberedDevices[x].expiresAt < t})]

----------------------------------------------------------------------------
(* AuthService: the steps of each handler *)

Audited(res, action, userId) ==
    Ret(createAuditEvent(res.db, action, userId),
        [res.pr EXCEPT !.r.nAudit = @ + 1])

Emailed(res, kind, userId, token) ==
    Ret(sendEmail(res.db, kind, userId, token),
        [res.pr EXCEPT !.r.nEmail = @ + 1])

\* parseCompositeToken: exactly two non-empty segments.
WellFormedToken(token) == Len(token) = 2 /\ token[1] # 0 /\ token[2] # 0

\* A lifetime that is never capped.
RefreshTtlUncapped(e, rememberMe) == e.REFRESH_TOKEN_TTL_SECONDS

RefreshTtlSeconds(e, rememberMe) ==
    IF rememberMe
    THEN e.REFRESH_TOKEN_TTL_SECONDS
    ELSE Min(e.REFRESH_TOKEN_TTL_SECONDS, SevenDays)

\* A call of issueSession(user, context, previousTokenId, rememberMe); `ret`
\* names the caller to resume.
issueSession(d, pr, userId, previousTokenId, rememberMe, ret) ==
    Goto(d, [pr EXCEPT !.l.userId = userId, !.l.prev = previousTokenId,
                       !.l.rememberMe = rememberMe, !.l.ret = ret],
         "issue_save")

\* What each caller does once issueSession has returned its tokens, up to
\* its next repository call.
AfterIssue(d, pr) ==
    CASE pr.l.ret = "refresh" ->
            Audited(Finish(d, [pr EXCEPT !.r.type = "refreshed",
                                         !.r.userId = pr.l.userId,
                                         !.r.tokenId = pr.l.tokenId], "ok"),
                    "auth.refresh", pr.l.userId)
      [] pr.l.ret = "signup" ->
            Emailed(Finish(d, [pr EXCEPT !.r.type = "signup",
                                         !.r.userId = pr.l.userId,
                                         !.r.tokenId = pr.l.tokenId], "ok"),
                    "verification", pr.l.userId, pr.l.mailToken)
      [] pr.l.ret = "login" -> Goto(d, pr, "login_lastlogin")
      [] pr.l.ret = "challenge" ->
            IF pr.a.rememberDevice /\ ~pr.l.usingBackupCode
            THEN Goto(d, pr, "clc_createdevice")
            ELSE Goto(d, pr, "clc_lastlogin")

\* issueSession: saveRefreshToken.
issueSession_save(d, pr, t, e) ==
    LET id == NextTokenId(d)
        d2 == saveRefreshToken(d, id, pr.l.userId, Hash(SecretOf(id)), t,
                               t + RefreshTtlSeconds(e, pr.l.rememberMe))
        pr2 == [pr EXCEPT !.l.tokenId = id]
    IN  IF pr.l.prev # 0
        THEN Goto(d2, pr2, "issue_revoke")
        ELSE AfterIssue(d2, pr2)

\* issueSession: revokeRefreshToken(previousTokenId, now, refreshTokenId).
issueSession_revoke(d, pr, t) ==
    IF pr.l.prev \notin DOMAIN d.refreshTokens
    THEN Finish(d, pr, "STORAGE_ERROR")
    ELSE AfterIssue(revokeRefreshToken(d, pr.l.prev, t, pr.l.tokenId), pr)

\* The checks of refreshSession with the expiry of the record tested before
\* its revocation.
refreshSession_find_expiry_first(d, pr, t) ==
    IF ~WellFormedToken(pr.a.token)
    THEN Finish(d, pr, "AUTH_INVALID_REFRESH_TOKEN")
    ELSE IF pr.a.token[1] \notin DOMAIN d.refreshTokens
    THEN Finish(d, pr, "AUTH_INVALID_REFRESH_TOKEN")
    ELSE
        LET id == pr.a.token[1]
            record == d.refreshTokens[id]
            pr1 == [pr EXCEPT !.l.prev = id, !.l.userId = record.userId]
        IN  IF record.expiresAt <= t
            THEN Goto(d, pr1, "refresh_revoke_expired")
            ELSE IF record.revokedAt # NoTime
            THEN Finish(d, pr, "AUTH_REFRESH_TOKEN_REVOKED")
            ELSE IF ~Verify(record.tokenHash, pr.a.token[2])
            THEN Goto(d, pr1, "refresh_revoke_invalid")
            ELSE IF d.users[record.userId].status = "suspended"
            THEN Goto(d, pr1, "refresh_revoke_suspended")
            ELSE issueSession(d, pr, record.userId, id, FALSE, "refresh")

\* refreshSession: parse, findRefreshTokenById and the checks on the record
\* it returned.
refreshSession_find(d, pr, t) ==
    IF ~WellFormedToken(pr.a.token)
    THEN Finish(d, pr, "AUTH_INVALID_REFRESH_TOKEN")
    ELSE IF pr.a.token[1] \notin DOMAIN d.refreshTokens
    THEN Finish(d, pr, "AUTH_INVALID_REFRESH_TOKEN")
    ELSE
        LET id == pr.a.token[1]
            record == d.refreshTokens[id]
            pr1 == [pr EXCEPT !.l.prev = id, !.l.userId = record.userId]
        IN  IF record.revokedAt # NoTime
            THEN Finish(d, pr, "AUTH_REFRESH_TOKEN_REVOKED")
            ELSE IF record.expiresAt <= t
            THEN Goto(d, pr1, "refresh_revoke_expired")
            ELSE IF ~Verify(record.tokenHash, pr.a.token[2])
            THEN Goto(d, pr1, "refresh_revoke_invalid")
            ELSE IF d.users[record.userId].status = "suspended"
            THEN Goto(d, pr1, "refresh_revoke_suspended")
            ELSE issueSession(d, pr, record.userId, id, FALSE, "refresh")

\* A refusal that leaves the token as it was.
refreshSession_refuse(d, pr, t, error) == Finish(d, pr, error)

\* refreshSession: revokeRefreshToken(record.id, now), then the throw.
refreshSession_revoke(d, pr, t, error) ==
    IF pr.l.prev \notin DOMAIN d.refreshTokens
    THEN Finish(d, pr, "STORAGE_ERROR")
    ELSE Finish(revokeRefreshToken(d, pr.l.prev, t, 0), pr, error)

\* signup: the terms check and findUserByEmail.
signup_find(d, pr) ==
    IF ~pr.a.acceptTerms
    THEN Finish(d, pr, "AUTH_TERMS_NOT_ACCEPTED")
    ELSE IF findUserByEmail(d, normalizeEmail(pr.a.email)) # 0
    THEN Finish(d, pr, "AUTH_EMAIL_EXISTS")
    ELSE Goto(d, pr, "signup_create")

\* signup: createUser (the unique index on email rejects a duplicate).
signup_create(d, pr) ==
    IF EmailTaken(d, normalizeEmail(pr.a.email))
    THEN Finish(d, pr, "STORAGE_ERROR")
    ELSE Goto(createUser(d, normalizeEmail(pr.a.email), Hash(pr.a.password)),
              [pr EXCEPT !.l.userId = NextUserId(d)], "signup_savetoken")

\* signup: saveEmailVerificationToken, the audit event, then issueSession.
signup_savetoken(d, pr, t, e) ==
    LET token == NextEmailTokenId(d)
        d2 == saveEmailVerificationToken(d, pr.l.userId, token,
                  t + e.EMAIL_VERIFICATION_TOKEN_TTL_HOURS * 60 * 60)
    IN  Audited(issueSession(d2, [pr EXCEPT !.l.mailToken = token],
                             pr.l.userId, 0, FALSE, "signup"),
                "auth.signup", pr.l.userId)

\* A lookup that records the request for an address nobody has.
requestPasswordReset_find_recorded(d, pr) ==
    LET u == findUserByEmail(d, normalizeEmail(pr.a.email))
    IN  IF u = 0
        THEN Audited(Finish(d, [pr EXCEPT !.r.requested = FALSE], "ok"),
                     "auth.password.reset-request", 0)
        ELSE Goto(d, [pr EXCEPT !.l.userId = u], "rpr_create")

\* requestPasswordReset: findUserByEmail.
requestPasswordReset_find(d, pr) ==
    LET u == findUserByEmail(d, normalizeEmail(pr.a.email))
    IN  IF u = 0
        THEN Finish(d, [pr EXCEPT !.r.requested = FALSE], "ok")
        ELSE Goto(d, [pr EXCEPT !.l.userId = u], "rpr_create")

\* requestPasswordReset: createPasswordResetToken, the e-mail, the audit event.
requestPasswordReset_create(d, pr, t, e) ==
    LET token == NextResetTokenId(d)
        d2 == createPasswordResetToken(d, pr.l.userId, token,
                  t + e.PASSWORD_RESET_TOKEN_TTL_MINUTES * 60)
    IN  Audited(Emailed(Finish(d2, [pr EXCEPT !.r.requested = TRUE,
                                              !.r.userId = pr.l.userId], "ok"),
                        "password-reset", pr.l.userId, token),
                "auth.password.reset-request", pr.l.userId)

\* resetPassword: consumePasswordResetToken reads the token and checks it.
resetPassword_find(d, pr, t) ==
    IF ~PasswordResetTokenUsable(d, pr.a.resetToken, t)
    THEN Finish(d, pr, "AUTH_RESET_TOKEN_INVALID")
    ELSE Goto(d, pr, "rp_consume")

\* resetPassword: consumePasswordResetToken updates the token it read.
resetPassword_consume(d, pr, t) ==
    Goto(markPasswordResetTokenConsumed(d, pr.a.resetToken, t),
         [pr EXCEPT !.l.userId = d.passwordResetTokens[pr.a.resetToken].userId],
         "rp_finduser")

\* resetPassword: findUserById.
resetPassword_finduser(d, pr) ==
    IF pr.l.userId \notin DOMAIN d.users
    THEN Finish(d, pr, "AUTH_RESET_TOKEN_INVALID")
    ELSE Goto(d, pr, "rp_updatehash")

\* resetPassword: updatePasswordHash.
resetPassword_updatehash(d, pr) ==
    Goto(updatePasswordHash(d, pr.l.userId, Hash(pr.a.newPassword)), pr, "rp_revoke")

\* resetPassword: revokeRefreshTokensForUser, the audit event.
resetPassword_revoke(d, pr, t) ==
    Audited(Finish(revokeRefreshTokensForUser(d, pr.l.userId, t),
                   [pr EXCEPT !.r.userId = pr.l.userId], "ok"),
            "auth.password.reset", pr.l.userId)

\* POST /api/auth/logout: the route takes the refresh token from the body
\* or the cookie, clears the cookies of the reply and answers 204; it makes
\* no call to the service or the repository.
logout_clear(d, pr) == Finish(d, pr, "ok")

----------------------------------------------------------------------------
(* AuthService: login and the MFA challenge engine *)

\* A credential check that tells an unknown address from a wrong password.
login_find_revealing(d, pr) ==
    LET u == findUserByEmail(d, normalizeEmail(pr.a.email))
    IN  IF u = 0
        THEN Finish(d, pr, "AUTH_USER_NOT_FOUND")
        ELSE IF ~Verify(d.users[u].passwordHash, pr.a.password)
        THEN Finish(d, pr, "AUTH_INVALID_CREDENTIALS")
        ELSE IF d.users[u].status = "suspended"
        THEN Finish(d, pr, "AUTH_ACCOUNT_SUSPENDED")
        ELSE Goto(d, [pr EXCEPT !.l.userId = u], "login_getmfa")

\* A credential check that looks at the status before the password.
login_find_statusfirst(d, pr) ==
    LET u == findUserByEmail(d, normalizeEmail(pr.a.email))
    IN  IF u = 0
        THEN Finish(d, pr, "AUTH_INVALID_CREDENTIALS")
        ELSE IF d.users[u].status = "suspended"
        THEN Finish(d, pr, "AUTH_ACCOUNT_SUSPENDED")
        ELSE IF ~Verify(d.users[u].passwordHash, pr.a.password)
        THEN Finish(d, pr, "AUTH_INVALID_CREDENTIALS")
        ELSE Goto(d, [pr EXCEPT !.l.userId = u], "login_getmfa")

\* login without challengeId and mfaCode: findUserByEmail and the
\* credential checks.
login_find(d, pr) ==
    LET u == findUserByEmail(d, normalizeEmail(pr.a.email))
    IN  IF u = 0
        THEN Finish(d, pr, "AUTH_INVALID_CREDENTIALS")
        ELSE IF ~Verify(d.users[u].passwordHash, pr.a.password)
        THEN Finish(d, pr, "AUTH_INVALID_CREDENTIALS")
        ELSE IF d.users[u].status = "suspended"
        THEN Finish(d, pr, "AUTH_ACCOUNT_SUSPENDED")
        ELSE Goto(d, [pr EXCEPT !.l.userId = u], "login_getmfa")

\* login: getActiveMfaConfiguration, and validateRememberedDevice up to its
\* first repository call.
login_getmfa(d, pr) ==
    IF ~ActiveMfa(d, pr.l.userId)
    THEN issueSession(d, pr, pr.l.userId, 0, pr.a.rememberMe, "login")
    ELSE IF pr.a.deviceToken = 0
    THEN Goto(d, [pr EXCEPT !.l.mfaId = d.mfaSettings[pr.l.userId].id],
              "login_createchallenge")
    ELSE Goto(d, [pr EXCEPT !.l.mfaId = d.mfaSettings[pr.l.userId].id],
              "login_listdevices")

\* A scan that does not look at expiresAt.
DeviceMatchesAtAnyAge(device, token, t) == Verify(device.tokenHash, token)

\* validateRememberedDevice: listRememberedDevices and the scan for the
\* first unexpired device whose hash verifies the token.
DeviceMatches(device, token, t) ==
    /\ ~(device.expiresAt < t)
    /\ Verify(device.tokenHash, token)

validateRememberedDevice_list(d, pr, t) ==
    LET matching == {x \in listRememberedDevices(d, pr.l.mfaId) :
                        DeviceMatches(d.rememberedDevices[x], pr.a.deviceToken, t)}
    IN  IF matching = {}
        THEN Goto(d, pr, "login_prune")
        ELSE Goto(d, [pr EXCEPT !.l.matched = SetMin(matching)], "login_updatedevice")

\* validateRememberedDevice: updateRememberedDevice on the match.
validateRememberedDevice_update(d, pr, t) ==
    IF pr.l.matched \notin DOMAIN d.rememberedDevices
    THEN Finish(d, pr, "STORAGE_ERROR")
    ELSE Goto(updateRememberedDevice(d, pr.l.matched, t), pr, "login_prune")

\* validateRememberedDevice: deleteExpiredRememberedDevices; then login
\* issues the session on a match, or goes on to the challenge.
validateRememberedDevice_prune(d, pr, t) ==
    LET d2 == deleteExpiredRememberedDevices(d, pr.l.mfaId, t)
    IN  IF pr.l.matched # 0
        THEN issueSession(d2, pr, pr.l.userId, 0, pr.a.rememberMe, "login")
        ELSE Goto(d2, pr, "login_createchallenge")

\* login: createMfaChallenge, the audit event, the challenge descriptor.
login_createchallenge(d, pr, t, e) ==
    LET d2 == createMfaChallenge(d, pr.l.userId, pr.l.mfaId, "login", NoSecret,
                  [has |-> TRUE, rememberMe |-> pr.a.rememberMe],
                  t + e.MFA_CHALLENGE_TTL_SECONDS)
    IN  Audited(Finish(d2, [pr EXCEPT !.r.type = "mfa_challenge",
                                      !.r.userId = pr.l.userId,
                                      !.r.challengeId = d.nextChallengeId], "ok"),
                "auth.login.challenge", pr.l.userId)

\* login: updateLastLogin, the audit event, the authenticated result.
login_lastlogin(d, pr, t) ==
    Audited(Finish(updateLastLogin(d, pr.l.userId, t),
                   [pr EXCEPT !.r.type = "authenticated",
                              !.r.userId = pr.l.userId,
                              !.r.tokenId = pr.l.tokenId], "ok"),
            "auth.login", pr.l.userId)

\* A limit that locks one failure later.
registerFailedMfaAttempt_lenient(d, pr, e) ==
    LET challenge == pr.l.challenge
        nextAttempts == challenge.attempts + 1
    IN  IF ~ChallengeExists(d, challenge.id)
        THEN Finish(d, pr, "STORAGE_ERROR")
        ELSE Audited(
                IF nextAttempts > e.MFA_MAX_ATTEMPTS
                THEN Goto(incrementMfaChallengeAttempts(d, challenge.id, nextAttempts),
                          pr, "fail_delete")
                ELSE Finish(incrementMfaChallengeAttempts(d, challenge.id, nextAttempts),
                            pr, "AUTH_MFA_CODE_INCORRECT"),
                "auth.mfa.challenge.failed", challenge.userId)

\* registerFailedMfaAttempt: incrementMfaChallengeAttempts with the attempts
\* of the challenge record the caller read, plus one; the audit event.
registerFailedMfaAttempt_increment(d, pr, e) ==
    LET challenge == pr.l.challenge
        nextAttempts == challenge.attempts + 1
    IN  IF ~ChallengeExists(d, challenge.id)
        THEN Finish(d, pr, "STORAGE_ERROR")
        ELSE Audited(
                IF nextAttempts >= e.MFA_MAX_ATTEMPTS
                THEN Goto(incrementMfaChallengeAttempts(d, challenge.id, nextAttempts),
                          pr, "fail_delete")
                ELSE Finish(incrementMfaChallengeAttempts(d, challenge.id, nextAttempts),
                            pr, "AUTH_MFA_CODE_INCORRECT"),
                "auth.mfa.challenge.failed", challenge.userId)

\* registerFailedMfaAttempt: deleteMfaChallenge, then the lock-out error.
registerFailedMfaAttempt_delete(d, pr) ==
    IF ~ChallengeExists(d, pr.l.challenge.id)
    THEN Finish(d, pr, "STORAGE_ERROR")
    ELSE Finish(deleteMfaChallenge(d, pr.l.challenge.id), pr, "AUTH_MFA_CHALLENGE_LOCKED")

\* deleteMfaChallenge of the expired challenge, then the error.
deleteExpiredChallenge(d, pr) ==
    IF ~ChallengeExists(d, pr.l.challenge.id)
    THEN Finish(d, pr, "STORAGE_ERROR")
    ELSE Finish(deleteMfaChallenge(d, pr.l.challenge.id), pr, "AUTH_MFA_CHALLENGE_EXPIRED")

\* completeLoginChallenge: findMfaChallengeById and the expiry check.
completeLoginChallenge_find(d, pr, t) ==
    LET challenge == findMfaChallengeById(d, pr.a.challengeId)
    IN  IF challenge.id = 0
        THEN Finish(d, pr, "AUTH_MFA_CHALLENGE_INVALID")
        ELSE IF challenge.expiresAt < t
        THEN Goto(d, [pr EXCEPT !.l.challenge = challenge], "clc_delete_expired")
        ELSE Goto(d, [pr EXCEPT !.l.challenge = challenge], "clc_getmfa")

\* completeLoginChallenge: getActiveMfaConfiguration and the sort of code.
completeLoginChallenge_getmfa(d, pr, t) ==
    LET userId == pr.l.challenge.userId
    IN  IF ~ActiveMfa(d, userId)
        THEN Goto(d, pr, "clc_delete_inactive")
        ELSE
            LET setting == d.mfaSettings[userId]
                secret == decryptSecret(setting.secretEncrypted)
                pr1 == [pr EXCEPT !.l.mfaId = setting.id]
            IN  IF pr.a.code.shape = "totp"
                THEN IF isValidTotpToken(secret, pr.a.code, t)
                     THEN Goto(d, pr1, "clc_consume")
                     ELSE Goto(d, pr1, "fail_incr")
                ELSE IF toUpperCase(pr.a.code).shape = "backup"
                THEN Goto(d, pr1, "bc_list")
                ELSE Goto(d, pr1, "fail_incr")

\* completeLoginChallenge: the configuration is gone; deleteMfaChallenge.
completeLoginChallenge_deleteinactive(d, pr) ==
    IF ~ChallengeExists(d, pr.l.challenge.id)
    THEN Finish(d, pr, "STORAGE_ERROR")
    ELSE Finish(deleteMfaChallenge(d, pr.l.challenge.id), pr, "AUTH_MFA_CHALLENGE_INVALID")

\* A scan that does not look at usedAt.
BackupCodeMatchesUsedOrNot(record, code) == Verify(record.codeHash, code)

\* consumeBackupCode: listMfaBackupCodes and the scan for the first unused
\* code whose hash verifies the upper-cased input.
BackupCodeMatches(record, code) ==
    /\ record.usedAt = NoTime
    /\ Verify(record.codeHash, code)

consumeBackupCode_list(d, pr) ==
    LET matching == {c \in listMfaBackupCodes(d, pr.l.mfaId) :
                        BackupCodeMatches(d.backupCodes[c], toUpperCase(pr.a.code))}
    IN  IF matching = {}
        THEN Goto(d, pr, "fail_incr")
        ELSE Goto(d, [pr EXCEPT !.l.codeId = SetMin(matching)], "bc_mark")

\* A consumption that does not report that a backup code was used.
consumeBackupCode_mark_unreported(d, pr, t) ==
    IF pr.l.codeId \notin DOMAIN d.backupCodes
    THEN Finish(d, pr, "STORAGE_ERROR")
    ELSE Audited(Goto(markBackupCodeUsed(d, pr.l.codeId, t), pr, "clc_consume"),
                 "auth.mfa.backup-code.used", pr.l.challenge.userId)

\* consumeBackupCode: markBackupCodeUsed, the audit event.
consumeBackupCode_mark(d, pr, t) ==
    IF pr.l.codeId \notin DOMAIN d.backupCodes
    THEN Finish(d, pr, "STORAGE_ERROR")
    ELSE Audited(Goto(markBackupCodeUsed(d, pr.l.codeId, t),
                      [pr EXCEPT !.l.usingBackupCode = TRUE], "clc_consume"),
                 "auth.mfa.backup-code.used", pr.l.challenge.userId)

\* completeLoginChallenge: consumeMfaChallenge (null when the row is gone)
\* and the rememberMe flag of the record it returned.
completeLoginChallenge_consume(d, pr, t) ==
    IF ChallengeExists(d, pr.l.challenge.id)
    THEN LET d2 == consumeMfaChallenge(d, pr.l.challenge.id, t)
             context == d2.mfaChallenges[pr.l.challenge.id].context
         IN  Goto(d2, [pr EXCEPT !.l.rememberMe = context.has /\ context.rememberMe],
                  "clc_finduser")
    ELSE Goto(d, [pr EXCEPT !.l.rememberMe = FALSE], "clc_finduser")

\* completeLoginChallenge: findUserById, then issueSession.
completeLoginChallenge_finduser(d, pr) ==
    IF pr.l.challenge.userId \notin DOMAIN d.users
    THEN Finish(d, pr, "AUTH_INVALID_CREDENTIALS")
    ELSE issueSession(d, pr, pr.l.challenge.userId, 0, pr.l.rememberMe, "challenge")

\* createRememberedDevice.
createRememberedDevice_create(d, pr, t, e) ==
    Goto(createRememberedDevice(d, pr.l.mfaId, Hash(d.nextDeviceId),
             t + e.MFA_REMEMBER_DEVICE_DAYS * 24 * 60 * 60),
         [pr EXCEPT !.l.deviceToken = d.nextDeviceId], "clc_lastlogin")

\* completeLoginChallenge: updateLastLogin, the audit event, the result
\* (login wraps it as 'authenticated').
completeLoginChallenge_lastlogin(d, pr, t) ==
    Audited(Finish(updateLastLogin(d, pr.l.userId, t),
                   [pr EXCEPT !.r.type = IF pr.op = "login" THEN "authenticated" ELSE "login",
                              !.r.userId = pr.l.userId,
                              !.r.tokenId = pr.l.tokenId,
                              !.r.deviceToken = pr.l.deviceToken], "ok"),
            "auth.mfa.login.success", pr.l.userId)

\* verifyMfaChallenge: findMfaChallengeById, the expiry and consumed checks,
\* the dispatch on the stored type, and completeSetupChallenge up to its
\* first repository call.
verifyMfaChallenge_find(d, pr, t) ==
    LET challenge == findMfaChallengeById(d, pr.a.challengeId)
        pr1 == [pr EXCEPT !.l.challenge = challenge]
    IN  IF challenge.id = 0
        THEN Finish(d, pr, "AUTH_MFA_CHALLENGE_INVALID")
        ELSE IF challenge.expiresAt < t
        THEN Goto(d, pr1, "vmc_delete_expired")
        ELSE IF challenge.consumedAt # NoTime
        THEN Finish(d, pr, "AUTH_MFA_CHALLENGE_INVALID")
        ELSE IF challenge.type = "setup"
        THEN IF challenge.secretEncrypted = NoSecret
             THEN Finish(d, pr, "AUTH_MFA_CHALLENGE_INVALID")
             ELSE IF ~isValidTotpToken(decryptSecret(challenge.secretEncrypted), pr.a.code, t)
             THEN Goto(d, pr1, "fail_incr")
             ELSE Goto(d, pr1, "csc_upsert")
        ELSE IF challenge.type = "login"
        THEN Goto(d, pr, "clc_find")
        ELSE Finish(d, pr, "AUTH_MFA_CHALLENGE_INVALID")

\* completeSetupChallenge: upsertMfaSetting with activatedAt = now.
completeSetupChallenge_upsert(d, pr, t) ==
    Goto(upsertMfaSetting(d, pr.l.challenge.userId, pr.l.challenge.secretEncrypted, t),
         [pr EXCEPT !.l.mfaId = pr.l.challenge.userId], "csc_replace")

\* completeSetupChallenge: generateBackupCodes and replaceMfaBackupCodes.
completeSetupChallenge_replace(d, pr) ==
    LET g == d.nextBackupGen
    IN  Goto(replaceMfaBackupCodes(d, pr.l.mfaId, g,
                                   generateBackupCodes(g, BACKUP_CODE_COUNT)),
             [pr EXCEPT !.r.backupGen = g], "csc_consume")

\* completeSetupChallenge: consumeMfaChallenge (its result is not read),
\* the audit event, the backup codes.
completeSetupChallenge_consume(d, pr, t) ==
    LET d2 == IF ChallengeExists(d, pr.l.challenge.id)
              THEN consumeMfaChallenge(d, pr.l.challenge.id, t)
              ELSE d
    IN  Audited(Finish(d2, [pr EXCEPT !.r.type = "setup",
                                      !.r.userId = pr.l.challenge.userId], "ok"),
                "auth.mfa.setup.completed", pr.l.challenge.userId)

\* startMfaEnrollment: getActiveMfaConfiguration.
startMfaEnrollment_getmfa(d, pr) ==
    IF ActiveMfa(d, pr.a.userId)
    THEN Finish(d, pr, "AUTH_MFA_ALREADY_ENABLED")
    ELSE Goto(d, pr, "sme_create")

\* An enrolment that also stores the pending secret as the configuration.
startMfaEnrollment_create_staged(d, pr, t, e) ==
    LET secret == d.nextChallengeId
        d2 == createMfaChallenge(upsertMfaSetting(d, pr.a.userId, encryptSecret(secret), NoTime),
                  pr.a.userId, 0, "setup", encryptSecret(secret),
                  NoContext, t + e.MFA_CHALLENGE_TTL_SECONDS)
    IN  Audited(Finish(d2, [pr EXCEPT !.r.type = "enrollment",
                                      !.r.userId = pr.a.userId,
                                      !.r.challengeId = d.nextChallengeId], "ok"),
                "auth.mfa.setup.started", pr.a.userId)

\* startMfaEnrollment: createTotpSecret, encryptSecret, createMfaChallenge,
\* the audit event.  The secret is a fresh nonce.
startMfaEnrollment_create(d, pr, t, e) ==
    LET secret == d.nextChallengeId
        d2 == createMfaChallenge(d, pr.a.userId, 0, "setup", encryptSecret(secret),
                  NoContext, t + e.MFA_CHALLENGE_TTL_SECONDS)
    IN  Audited(Finish(d2, [pr EXCEPT !.r.type = "enrollment",
                                      !.r.userId = pr.a.userId,
                                      !.r.challengeId = d.nextChallengeId], "ok"),
                "auth.mfa.setup.started", pr.a.userId)

----------------------------------------------------------------------------
(* TransactionsService.queueImport over PrismaTransactionsRepository: the   *)
(* service passes the request to createImportJob, whose atomic steps are    *)
(* its three queries.  An absent idempotencyKey is 0.                       *)

\* transactionImportBatch.findFirst({ where: { userId, uploadId } })
findImportJobByUploadId(d, userId, uploadId) ==
    LET found == {j \in DOMAIN d.importJobs :
                     d.importJobs[j].userId = userId /\ d.importJobs[j].uploadId = uploadId}
    IN  IF found = {} THEN 0 ELSE SetMin(found)

\* transactionImportBatch.findFirst({ where: { userId, idempotencyKey } })
findImportJobByIdempotencyKey(d, userId, idempotencyKey) ==
    LET found == {j \in DOMAIN d.importJobs :
                     /\ d.importJobs[j].userId = userId
                     /\ d.importJobs[j].idempotencyKey = idempotencyKey}
    IN  IF found = {} THEN 0 ELSE SetMin(found)

NextImportJobId(d) == Cardinality(DOMAIN d.importJobs) + 1

\* transactionImportBatch.create
createImportBatch(d, userId, uploadId, idempotencyKey) ==
    [d EXCEPT !.importJobs = Put(@, NextImportJobId(d),
        [ userId |-> userId, uploadId |-> uploadId,
          idempotencyKey |-> idempotencyKey, status |-> "queued" ])]

\* createImportJob: findImportJobByUploadId; an upload that has a job is
\* refused.
createImportJob_findupload(d, pr) ==
    IF findImportJobByUploadId(d, pr.a.userId, pr.a.uploadId) # 0
    THEN Finish(d, pr, "TRANSACTIONS_IMPORT_DUPLICATE")
    ELSE IF pr.a.idempotencyKey # 0
    THEN Goto(d, pr, "qi_findkey")
    ELSE Goto(d, pr, "qi_create")

\* createImportJob: findImportJobByIdempotencyKey; the job found is the
\* result.
createImportJob_findkey(d, pr) ==
    LET existingKey == findImportJobByIdempotencyKey(d, pr.a.userId, pr.a.idempotencyKey)
    IN  IF existingKey # 0
        THEN Finish(d, [pr EXCEPT !.r.jobId = existingKey], "ok")
        ELSE Goto(d, pr, "qi_create")

\* createImportJob: the insert.
createImportJob_create(d, pr) ==
    Finish(createImportBatch(d, pr.a.userId, pr.a.uploadId, pr.a.idempotencyKey),
           [pr EXCEPT !.r.jobId = NextImportJobId(d)], "ok")

----------------------------------------------------------------------------
(* One step of a request, and a request run to its end *)

Step(d, pr, t, e) ==
    CASE pr.pc = "signup_find" -> signup_find(d, pr)
      [] pr.pc = "signup_create" -> signup_create(d, pr)
      [] pr.pc = "signup_savetoken" -> signup_savetoken(d, pr, t, e)
      [] pr.pc = "issue_save" -> issueSession_save(d, pr, t, e)
      [] pr.pc = "issue_revoke" -> issueSession_revoke(d, pr, t)
      [] pr.pc = "refresh_find" -> refreshSession_find(d, pr, t)
      [] pr.pc = "refresh_revoke_expired" ->
            refreshSession_revoke(d, pr, t, "AUTH_REFRESH_TOKEN_EXPIRED")
      [] pr.pc = "refresh_revoke_invalid" ->
            refreshSession_revoke(d, pr, t, "AUTH_INVALID_REFRESH_TOKEN")
      [] pr.pc = "refresh_revoke_suspended" ->
            refreshSession_revoke(d, pr, t, "AUTH_ACCOUNT_SUSPENDED")
      [] pr.pc = "rpr_find" -> requestPasswordReset_find(d, pr)
      [] pr.pc = "rpr_create" -> requestPasswordReset_create(d, pr, t, e)
      [] pr.pc = "rp_find" -> resetPassword_find(d, pr, t)
      [] pr.pc = "rp_consume" -> resetPassword_consume(d, pr, t)
      [] pr.pc = "rp_finduser" -> resetPassword_finduser(d, pr)
      [] pr.pc = "rp_updatehash" -> resetPassword_updatehash(d, pr)
      [] pr.pc = "rp_revoke" -> resetPassword_revoke(d, pr, t)
      [] pr.pc = "logout_clear" -> logout_clear(d, pr)
      [] pr.pc = "qi_findupload" -> createImportJob_findupload(d, pr)
      [] pr.pc = "qi_findkey" -> createImportJob_findkey(d, pr)
      [] pr.pc = "qi_create" -> createImportJob_create(d, pr)
      [] pr.pc = "login_find" -> login_find(d, pr)
      [] pr.pc = "login_getmfa" -> login_getmfa(d, pr)
      [] pr.pc = "login_listdevices" -> validateRememberedDevice_list(d, pr, t)
      [] pr.pc = "login_updatedevice" -> validateRememberedDevice_update(d, pr, t)
      [] pr.pc = "login_prune" -> validateRememberedDevice_prune(d, pr, t)
      [] pr.pc = "login_createchallenge" -> login_createchallenge(d, pr, t, e)
      [] pr.pc = "login_lastlogin" -> login_lastlogin(d, pr, t)
      [] pr.pc = "fail_incr" -> registerFailedMfaAttempt_increment(d, pr, e)
      [] pr.pc = "fail_delete" -> registerFailedMfaAttempt_delete(d, pr)
      [] pr.pc = "clc_find" -> completeLoginChallenge_find(d, pr, t)
      [] pr.pc = "clc_delete_expired" -> deleteExpiredChallenge(d, pr)
      [] pr.pc = "vmc_delete_expired" -> deleteExpiredChallenge(d, pr)
      [] pr.pc = "clc_getmfa" -> completeLoginChallenge_getmfa(d, pr, t)
      [] pr.pc = "clc_delete_inactive" -> completeLoginChallenge_deleteinactive(d, pr)
      [] pr.pc = "bc_list" -> consumeBackupCode_list(d, pr)
      [] pr.pc = "bc_mark" -> consumeBackupCode_mark(d, pr, t)
      [] pr.pc = "clc_consume" -> completeLoginChallenge_consume(d, pr, t)
      [] pr.pc = "clc_finduser" -> completeLoginChallenge_finduser(d, pr)
      [] pr.pc = "clc_createdevice" -> createRememberedDevice_create(d, pr, t, e)
      [] pr.pc = "clc_lastlogin" -> completeLoginChallenge_lastlogin(d, pr, t)
      [] pr.pc = "vmc_find" -> verifyMfaChallenge_find(d, pr, t)
      [] pr.pc = "csc_upsert" -> completeSetupChallenge_upsert(d, pr, t)
      [] pr.pc = "csc_replace" -> completeSetupChallenge_replace(d, pr)
      [] pr.pc = "csc_consume" -> completeSetupChallenge_consume(d, pr, t)
      [] pr.pc = "sme_getmfa" -> startMfaEnrollment_getmfa(d, pr)
      [] pr.pc = "sme_create" -> startMfaEnrollment_create(d, pr, t, e)

RECURSIVE Run(_, _, _, _)
Run(d, pr, t, e) ==
    IF pr.pc = "done"
    THEN Ret(d, pr)
    ELSE LET res == Step(d, pr, t, e) IN Run(res.db, res.pr, t, e)

\* The first repository call of each handler.  login with both challengeId
\* and mfaCode goes straight to completeLoginChallenge.
FirstPc(op, a) ==
    CASE op = "signup" -> "signup_find"
      [] op = "login" ->
            IF a.challengeId # 0 /\ a.code.shape # "none"
            THEN "clc_find"
            ELSE "login_find"
      [] op = "refreshSession" -> "refresh_find"
      [] op = "requestPasswordReset" -> "rpr_find"
      [] op = "resetPassword" -> "rp_find"
      [] op = "logout" -> "logout_clear"
      [] op = "queueImport" -> "qi_findupload"
      [] op = "startMfaEnrollment" -> "sme_getmfa"
      [] op = "verifyMfaChallenge" -> "vmc_find"

Begin(op, a) ==
    [op |-> op, pc |-> FirstPc(op, a), a |-> a, l |-> NoLocals, r |-> NoResult]

----------------------------------------------------------------------------
(* The requests the clients send *)

VerifyArgs(c, code) == [NoArgs EXCEPT !.challengeId = c, !.code = code]

\* Users sign up in the order of Names; a client may also ask for an
\* address that is taken.
SignupEmails(d) ==
    {Email(NameSeq[i], FALSE, FALSE) : i \in 1..Min(NextUserId(d), Len(NameSeq))}

Emails == {Email(n, FALSE, FALSE) : n \in Names}

SignupInputs(d) ==
    {[NoArgs EXCEPT !.email = email, !.password = SignupPassword, !.acceptTerms = TRUE] :
        email \in SignupEmails(d)}

LoginInputs(d) ==
    {[NoArgs EXCEPT !.email = email, !.password = password, !.rememberMe = rememberMe,
                    !.deviceToken = deviceToken] :
        email \in Emails, password \in Passwords, rememberMe \in RememberMe,
        deviceToken \in 0..MaxDevices}

\* Refresh cookies: the genuine value of a token that was issued, that id
\* with another secret, and a value with an empty segment.
RefreshInputs(d) ==
    {[NoArgs EXCEPT !.token = token] :
        token \in {RefreshTokenValue(id) : id \in 1..MaxTokens}
                     \cup {<<1, SecretOf(1) + 1>>, <<1, 0>>}}

\* Codes a client types against a challenge: the current TOTP of the secret
\* the challenge is about, a TOTP of no secret, the first and the last
\* backup code of the user's configuration, and text that is neither.
BackupIndices == {1, BACKUP_CODE_COUNT}

SecretFor(d, challenge) ==
    IF challenge.type = "setup"
    THEN decryptSecret(challenge.secretEncrypted)
    ELSE IF HasMfa(d, challenge.userId)
    THEN decryptSecret(d.mfaSettings[challenge.userId].secretEncrypted)
    ELSE 0

GenerationOf(d, userMfaId) ==
    IF listMfaBackupCodes(d, userMfaId) = {}
    THEN 0
    ELSE (SetMin(listMfaBackupCodes(d, userMfaId)) - 1) \div BACKUP_CODE_COUNT + 1

CodeChoices(d, challengeId, t) ==
    IF ~ChallengeExists(d, challengeId)
    THEN {generateTotp(0, t)}
    ELSE LET challenge == d.mfaChallenges[challengeId]
         IN  {generateTotp(SecretFor(d, challenge), t), generateTotp(0, t),
              Code("other", <<0, 0>>, FALSE)}
                \cup {Code("backup", <<GenerationOf(d, challenge.userId), i>>, FALSE) :
                         i \in BackupIndices}

ChallengeInputs(d, t) ==
    UNION {{[NoArgs EXCEPT !.challengeId = c, !.code = code, !.rememberDevice = rd] :
               code \in CodeChoices(d, c, t), rd \in BOOLEAN} : c \in 1..MaxChallenges}

\* login carrying challengeId and mfaCode: the service reads neither the
\* e-mail nor the password on that path.
LoginWithCodeInputs(d, t) ==
    {[a EXCEPT !.email = Email("a", FALSE, FALSE), !.password = SignupPassword] :
        a \in ChallengeInputs(d, t)}

RequestPasswordResetInputs(d) ==
    {[NoArgs EXCEPT !.email = email] : email \in Emails}

ResetPasswordInputs(d) ==
    {[NoArgs EXCEPT !.resetToken = resetToken, !.newPassword = NewPassword] :
        resetToken \in 1..MaxResetTokens}

\* The route authenticates the caller: userId is an existing user.
StartMfaEnrollmentInputs(d) ==
    {[NoArgs EXCEPT !.userId = userId] : userId \in DOMAIN d.users}

\* The tables stay within the bounds of the model.
Within(d) ==
    /\ Cardinality(DOMAIN d.refreshTokens) <= MaxTokens
    /\ d.nextChallengeId - 1 <= MaxChallenges
    /\ d.nextDeviceId - 1 <= MaxDevices
    /\ Cardinality(DOMAIN d.passwordResetTokens) <= MaxResetTokens

\* The response and the tables after a request served with no other
\* request in between.
Serve(d, op, a, t, e) == Run(d, Begin(op, a), t, e)

InFlight(pr) == pr.pc \notin {"idle", "done"}
Quiet == \A p \in Procs : procs[p].pc = "idle"

Call(op, a) ==
    /\ Quiet
    /\ Within(Serve(db, op, a, now, env).db)
    /\ db' = Serve(db, op, a, now, env).db
    /\ UNCHANGED <<now, env, procs>>

Signup == \E a \in SignupInputs(db) : Call("signup", a)
SignupFirst == \E a \in SignupInputs(InitDb) : Call("signup", a)
Login == \E a \in LoginInputs(db) : Call("login", a)
LoginWithCode == \E a \in LoginWithCodeInputs(db, now) : Call("login", a)
RefreshSession == \E a \in RefreshInputs(db) : Call("refreshSession", a)
RequestPasswordReset == \E a \in RequestPasswordResetInputs(db) : Call("requestPasswordReset", a)
ResetPassword == \E a \in ResetPasswordInputs(db) : Call("resetPassword", a)
Logout == \E a \in RefreshInputs(db) : Call("logout", a)
StartMfaEnrollment == \E a \in StartMfaEnrollmentInputs(db) : Call("startMfaEnrollment", a)
VerifyMfaChallenge == \E a \in ChallengeInputs(db, now) : Call("verifyMfaChallenge", a)

\* Import requests of two users, for two uploads, without an idempotency
\* key or with one of two.
ImportInputs ==
    {[NoArgs EXCEPT !.userId = userId, !.uploadId = uploadId,
                    !.idempotencyKey = idempotencyKey] :
        userId \in 1..2, uploadId \in 1..2, idempotencyKey \in 0..2}

QueueImport ==
    /\ Cardinality(DOMAIN db.importJobs) < MaxImportJobs
    /\ \E a \in ImportInputs : Call("queueImport", a)

\* The clock advances between requests.
Tick ==
    /\ Quiet
    /\ \E t \in Instants : t > now /\ now' = t
    /\ UNCHANGED <<env, db, procs>>

Start(e) ==
    /\ now = StartTime
    /\ env = e
    /\ db = InitDb
    /\ procs = [p \in Procs |-> IdleProc]

OverrideEnv == [DefaultEnv EXCEPT !.MFA_MAX_ATTEMPTS = 2]

Init == \E e \in EnvChoices : Start(e)
InitDefault == Start(DefaultEnv)
InitOverride == Start(OverrideEnv)

\* Every handler, one request at a time.
Next ==
    \/ Signup
    \/ Login
    \/ LoginWithCode
    \/ RefreshSession
    \/ RequestPasswordReset
    \/ ResetPassword
    \/ Logout
    \/ QueueImport
    \/ StartMfaEnrollment
    \/ VerifyMfaChallenge
    \/ Tick

Spec == Init /\ [][Next]_vars

\* Accounts, sessions and password resets of two users.
NextSession ==
    \/ Signup
    \/ Login
    \/ RefreshSession
    \/ RequestPasswordReset
    \/ ResetPassword
    \/ Logout
    \/ Tick

SpecSession == Init /\ [][NextSession]_vars

\* The MFA life cycle of one account, under a configuration that overrides
\* MFA_MAX_ATTEMPTS.
NextMfa ==
    \/ SignupFirst
    \/ Login
    \/ StartMfaEnrollment
    \/ VerifyMfaChallenge
    \/ Tick

SpecMfa == InitOverride /\ [][NextMfa]_vars

\* The MFA life cycle of one account under the default configuration.
NextDefault ==
    \/ SignupFirst
    \/ Login
    \/ StartMfaEnrollment
    \/ VerifyMfaChallenge

SpecDefault == InitDefault /\ [][NextDefault]_vars

\* The account-management flow, outside this service, that removes a user's
\* MFA configuration.
RemoveMfaSetting ==
    /\ Quiet
    /\ \E u \in DOMAIN db.mfaSettings : db' = deleteMfaSetting(db, db.mfaSettings[u].id)
    /\ UNCHANGED <<now, env, procs>>

\* A configuration is stored with activatedAt = null: upsertMfaSetting
\* without activatedAt keeps the secret of a configuration that exists and
\* clears its activatedAt, or creates the row.
StageMfaSetting ==
    /\ Quiet
    /\ \E u \in DOMAIN db.users :
          /\ HasMfa(db, u) => db.mfaSettings[u].activatedAt # NoTime
          /\ db' = upsertMfaSetting(db, u,
                      IF HasMfa(db, u)
                      THEN db.mfaSettings[u].secretEncrypted
                      ELSE encryptSecret(db.nextChallengeId),
                      NoTime)
    /\ UNCHANGED <<now, env, procs>>

\* The MFA life cycle of one account whose configuration is also removed
\* or left unactivated.
NextRemoval ==
    \/ SignupFirst
    \/ Login
    \/ StartMfaEnrollment
    \/ VerifyMfaChallenge
    \/ RemoveMfaSetting
    \/ StageMfaSetting

SpecRemoval == InitOverride /\ [][NextRemoval]_vars

\* The account-management flow, outside this service, that owns
\* user.status: it suspends an account or reinstates it.
UserStatuses == {"active", "suspended"}

SetUserStatus ==
    /\ Quiet
    /\ \E u \in DOMAIN db.users, status \in UserStatuses :
          /\ db.users[u].status # status
          /\ db' = [db EXCEPT !.users[u].status = status]
    /\ UNCHANGED <<now, env, procs>>

\* Accounts and sessions of two users whose accounts are suspended and
\* reinstated.
NextSuspension ==
    \/ Signup
    \/ Login
    \/ RefreshSession
    \/ SetUserStatus
    \/ Tick

SpecSuspension == InitDefault /\ [][NextSuspension]_vars

\* The MFA life cycle of one account that is suspended and reinstated.
NextSuspendedMfa ==
    \/ SignupFirst
    \/ Login
    \/ StartMfaEnrollment
    \/ VerifyMfaChallenge
    \/ SetUserStatus

SpecSuspendedMfa == InitOverride /\ [][NextSuspendedMfa]_vars

\* The tables of two accounts: room for the session of the second signup
\* and for the setup challenge of the second account.
WithinAccounts(d) ==
    /\ Cardinality(DOMAIN d.refreshTokens) <= MaxTokens + 1
    /\ d.nextChallengeId - 1 <= MaxChallenges + 1
    /\ d.nextDeviceId - 1 <= MaxDevices
    /\ Cardinality(DOMAIN d.passwordResetTokens) <= MaxResetTokens

CallAccounts(op, a) ==
    /\ Quiet
    /\ WithinAccounts(Serve(db, op, a, now, env).db)
    /\ db' = Serve(db, op, a, now, env).db
    /\ UNCHANGED <<now, env, procs>>

SignupAccount == \E a \in SignupInputs(db) : CallAccounts("signup", a)
LoginAccount == \E a \in LoginInputs(db) : CallAccounts("login", a)
EnrolAccount == \E a \in StartMfaEnrollmentInputs(db) : CallAccounts("startMfaEnrollment", a)

\* Verifications that carry the current TOTP of the challenge's secret,
\* with and without rememberDevice.
VerifyAccount ==
    \E c \in DOMAIN db.mfaChallenges, rememberDevice \in BOOLEAN :
        CallAccounts("verifyMfaChallenge",
            [VerifyArgs(c, generateTotp(SecretFor(db, db.mfaChallenges[c]), now))
                EXCEPT !.rememberDevice = rememberDevice])

\* Two accounts that both enrol in MFA and remember devices.
NextDevices ==
    \/ SignupAccount
    \/ LoginAccount
    \/ EnrolAccount
    \/ VerifyAccount

SpecDevices == InitDefault /\ [][NextDevices]_vars

----------------------------------------------------------------------------
(* Two requests served concurrently *)

\* The requests two clients send at the same moment: the genuine cookie of a
\* refresh token, or a verification of a challenge with the current TOTP or
\* with the first backup code.
RaceInputs(d, t) ==
    {<<"refreshSession", [NoArgs EXCEPT !.token = RefreshTokenValue(id)]>> :
        id \in DOMAIN d.refreshTokens}
    \cup {<<"verifyMfaChallenge", a>> :
            a \in {x \in ChallengeInputs(d, t) :
                      /\ ChallengeExists(d, x.challengeId)
                      /\ ~x.rememberDevice
                      /\ \/ x.code = generateTotp(SecretFor(d, d.mfaChallenges[x.challengeId]), t)
                         \/ x.code.shape = "backup" /\ x.code.v[2] = 1}}

\* Both requests arrive; neither has made a repository call yet.
StartRace ==
    /\ Quiet
    /\ \E x \in RaceInputs(db, now) : procs' = [p \in Procs |-> Begin(x[1], x[2])]
    /\ UNCHANGED <<now, env, db>>

\* The event loop resumes one request at its next repository call.
StepProc(p) ==
    /\ InFlight(procs[p])
    /\ db' = Step(db, procs[p], now, env).db
    /\ procs' = [procs EXCEPT ![p] = Step(db, procs[p], now, env).pr]
    /\ UNCHANGED <<now, env>>

NextRace ==
    \/ SignupFirst
    \/ Login
    \/ StartMfaEnrollment
    \/ VerifyMfaChallenge
    \/ StartRace
    \/ \E p \in Procs : StepProc(p)

SpecRace == InitDefault /\ [][NextRace]_vars

\* The import queue on its own.
SpecImport == InitDefault /\ [][QueueImport]_vars

\* The TOTP functions on their own: at an instant at the start, just inside,
\* at the end and just past a 30-second step, a client presents to a secret
\* a code that an authenticator generated for some secret up to three steps
\* away, or the same digits in text that is not six digits.
TotpSecrets == {1, 2}

InitTotp ==
    /\ now \in {StartTime, StartTime + 1, StartTime + TotpStepSeconds - 1,
                StartTime + TotpStepSeconds}
    /\ env = DefaultEnv
    /\ db = InitDb
    /\ procs = [p \in Procs |-> IdleProc]

PresentTotp ==
    /\ Quiet
    /\ \E secret \in TotpSecrets, of \in TotpSecrets, k \in (0 - 3)..3,
          shape \in {"totp", "other"} :
          LET generated == generateTotp(of, now + k * TotpStepSeconds)
              code == [generated EXCEPT !.shape = shape]
          IN  procs' = [procs EXCEPT ![1] =
                  [IdleProc EXCEPT !.op = "isValidTotpToken", !.pc = "done",
                                   !.a.code = code, !.l.secret = secret,
                                   !.r.outcome = IF isValidTotpToken(secret, code, now)
                                                 THEN "valid" ELSE "invalid"]]
    /\ UNCHANGED <<now, env, db>>

SpecTotp == InitTotp /\ [][PresentTotp]_vars

\* Deployments that differ in REFRESH_TOKEN_TTL_SECONDS: the default of 30
\* days, and one day.
RememberEnvs == {OverrideEnv, [OverrideEnv EXCEPT !.REFRESH_TOKEN_TTL_SECONDS = 24 * 60 * 60]}

InitRemember == \E e \in RememberEnvs : Start(e)

\* Password logins with and without rememberMe.
LoginRememberInputs(d) ==
    {[a EXCEPT !.rememberMe = rememberMe] : a \in LoginInputs(d), rememberMe \in BOOLEAN}

LoginRemember == \E a \in LoginRememberInputs(db) : Call("login", a)

\* The sessions of one account, with and without MFA, issued with and
\* without rememberMe.
NextRemember ==
    \/ SignupFirst
    \/ LoginRemember
    \/ RefreshSession
    \/ StartMfaEnrollment
    \/ VerifyMfaChallenge

SpecRemember == InitRemember /\ [][NextRemember]_vars

\* Two clients send the same account request at the same moment: a signup
\* for one address, or a resetPassword carrying one stored reset token.
AccountRaceInputs(d) ==
    {<<"signup", a>> : a \in SignupInputs(d)}
    \cup {<<"resetPassword", a>> :
            a \in {x \in ResetPasswordInputs(d) :
                      x.resetToken \in DOMAIN d.passwordResetTokens}}

StartAccountRace ==
    /\ Quiet
    /\ \E x \in AccountRaceInputs(db) : procs' = [p \in Procs |-> Begin(x[1], x[2])]
    /\ UNCHANGED <<now, env, db>>

\* Accounts, sessions and password resets, with two requests in flight.
NextAccountRace ==
    \/ Signup
    \/ Login
    \/ RequestPasswordReset
    \/ StartAccountRace
    \/ \E p \in Procs : StepProc(p)

SpecAccountRace == InitDefault /\ [][NextAccountRace]_vars

\* A client sends a verification of a stored challenge with a code that is
\* wrong, while the other request slot may hold a verification in flight;
\* a slot whose request is over takes the next one.
Arrive(p) ==
    /\ ~InFlight(procs[p])
    /\ \E c \in DOMAIN db.mfaChallenges :
          procs' = [procs EXCEPT ![p] =
              Begin("verifyMfaChallenge", VerifyArgs(c, generateTotp(0, now)))]
    /\ UNCHANGED <<now, env, db>>

\* Failed verifications of the challenges of one account, overlapping.
NextAttempts ==
    \/ SignupFirst
    \/ StartMfaEnrollment
    \/ \E p \in Procs : Arrive(p)
    \/ \E p \in Procs : StepProc(p)

SpecAttempts == InitDefault /\ [][NextAttempts]_vars

\* Two different requests that arrive at the same moment: a verification of
\* a challenge with the current TOTP and one of the same challenge with a
\* wrong code, or a refreshSession with the genuine cookie of a token and a
\* resetPassword with a stored reset token.
PairInputs(d, t) ==
    {<<Begin("verifyMfaChallenge",
             VerifyArgs(c, generateTotp(SecretFor(d, d.mfaChallenges[c]), t))),
       Begin("verifyMfaChallenge", VerifyArgs(c, generateTotp(0, t)))>> :
        c \in DOMAIN d.mfaChallenges}
    \cup {<<Begin("refreshSession", [NoArgs EXCEPT !.token = RefreshTokenValue(id)]),
            Begin("resetPassword", a)>> :
            id \in DOMAIN d.refreshTokens,
            a \in {x \in ResetPasswordInputs(d) :
                      x.resetToken \in DOMAIN d.passwordResetTokens}}

StartPair ==
    /\ Quiet
    /\ \E x \in PairInputs(db, now) : procs' = [p \in Procs |-> x[p]]
    /\ UNCHANGED <<now, env, db>>

\* The MFA life cycle and the password reset of one account, with two
\* different requests in flight.
NextPair ==
    \/ SignupFirst
    \/ Login
    \/ StartMfaEnrollment
    \/ VerifyMfaChallenge
    \/ RequestPasswordReset
    \/ StartPair
    \/ \E p \in Procs : StepProc(p)

SpecPair == InitOverride /\ [][NextPair]_vars

----------------------------------------------------------------------------
(* Claims about concurrent requests (SpecRace) *)

Finished(op) == \A p \in Procs : procs[p].op = op /\ procs[p].pc = "done"
Succeeded == {p \in Procs : procs[p].r.outcome = "ok"}

\* C1: when two refreshSession calls presenting the same valid, unexpired
\* refresh token run concurrently, exactly one of them returns a new token
\* pair, the other fails with RefreshTokenRevoked or InvalidRefreshToken,
\* and only one successor refresh token is created.
C1_ExactlyOneRefreshSucceeds ==
    Finished("refreshSession") =>
        /\ Cardinality(Succeeded) = 1
        /\ \A p \in Procs \ Succeeded :
              procs[p].r.outcome \in {"AUTH_REFRESH_TOKEN_REVOKED",
                                      "AUTH_INVALID_REFRESH_TOKEN"}
        /\ Cardinality({procs[p].r.tokenId : p \in Succeeded}) = 1

\* C2: when two verifications of the same unexpired, unconsumed challenge,
\* both carrying a correct TOTP code, run concurrently, at most one of them
\* succeeds (returns backup codes or a session).
C2_AtMostOneVerificationSucceeds ==
    (Finished("verifyMfaChallenge") /\ \A p \in Procs : procs[p].a.code.shape = "totp")
        => Cardinality(Succeeded) <= 1

\* C8: a refresh token whose revokedAt is set is never redeemed again: no
\* refreshSession call presenting it goes on to return a new token pair
\* after it was revoked.  A call at its last repository call (the revoke
\* that ends the rotation) returns the pair next.
C8_RevokedTokenNeverRedeemed ==
    \A p \in Procs :
        (procs[p].op = "refreshSession" /\ procs[p].pc = "issue_revoke")
            => db.refreshTokens[procs[p].l.prev].revokedAt = NoTime

\* C10: when two login-challenge verifications present the same unused
\* backup code concurrently, at most one of them is accepted.
C10_BackupCodeAcceptedAtMostOnce ==
    (Finished("verifyMfaChallenge") /\ \A p \in Procs : procs[p].a.code.shape = "backup")
        => Cardinality(Succeeded) <= 1

----------------------------------------------------------------------------
(* Claims about requests served one at a time.  Each is stated for every   *)
(* reachable state and every request a client can send in it: the handler  *)
(* is run on the state and its response and the tables it leaves are       *)
(* compared with the claim.                                                *)

Outcome(res) == res.pr.r.outcome

Outstanding(d, userId) ==
    {id \in DOMAIN d.refreshTokens :
        d.refreshTokens[id].userId = userId /\ d.refreshTokens[id].revokedAt = NoTime}

RefreshWith(d, id, t, e) ==
    Serve(d, "refreshSession", [NoArgs EXCEPT !.token = RefreshTokenValue(id)], t, e)

LaterInstants(t) == {x \in Instants : x >= t}

ResetSucceeds(d, a, t, e) == Outcome(Serve(d, "resetPassword", a, t, e)) = "ok"
ResetUser(d, a) == d.passwordResetTokens[a.resetToken].userId

\* C7: after resetPassword succeeds for a user, every refresh token of that
\* user that was unrevoked before the reset is revoked and a refreshSession
\* with it fails, at once and at any later instant; the refresh tokens of
\* other users are left unchanged.
C7_ResetRevokesOutstandingTokens ==
    \A a \in ResetPasswordInputs(db) :
        ResetSucceeds(db, a, now, env) =>
            LET after == Serve(db, "resetPassword", a, now, env).db
            IN  /\ DOMAIN after.refreshTokens = DOMAIN db.refreshTokens
                /\ \A id \in Outstanding(db, ResetUser(db, a)) :
                      /\ after.refreshTokens[id].revokedAt # NoTime
                      /\ \A t \in LaterInstants(now) :
                            /\ Outcome(RefreshWith(after, id, t, env)) = "AUTH_REFRESH_TOKEN_REVOKED"
                            /\ RefreshWith(after, id, t, env).db = after
                /\ \A id \in DOMAIN db.refreshTokens :
                      db.refreshTokens[id].userId # ResetUser(db, a)
                          => after.refreshTokens[id] = db.refreshTokens[id]

\* A reset that succeeds while its user holds an unrevoked refresh token and
\* another user holds one too.
C7_Witness ==
    \E a \in ResetPasswordInputs(db) :
        /\ ResetSucceeds(db, a, now, env)
        /\ Outstanding(db, ResetUser(db, a)) # {}
        /\ \E u \in DOMAIN db.users : u # ResetUser(db, a) /\ Outstanding(db, u) # {}

\* The remembered devices of a user's configuration that a token opens now.
OpenedDevices(d, userId, token, t) ==
    {x \in DOMAIN d.rememberedDevices :
        /\ d.rememberedDevices[x].userMfaId = d.mfaSettings[userId].id
        /\ d.rememberedDevices[x].expiresAt >= t
        /\ token # 0
        /\ d.rememberedDevices[x].tokenHash = Hash(token)}

LoginOf(d, a, t, e) == Serve(d, "login", a, t, e)

\* C3: login with e-mail and password for a user whose MFA configuration is
\* active returns tokens only if the remembered-device token presented opens
\* an unexpired remembered device of that configuration; otherwise it
\* returns only a challenge descriptor and creates no refresh token.
C3_MfaLoginNeedsDeviceOrChallenge ==
    \A a \in LoginInputs(db) :
        LET u == UserIdByEmail(db, normalizeEmail(a.email))
            res == LoginOf(db, a, now, env)
        IN  (u # 0 /\ ActiveMfa(db, u)) =>
                /\ res.pr.r.tokenId # 0 => OpenedDevices(db, u, a.deviceToken, now) # {}
                /\ res.db.refreshTokens # db.refreshTokens
                      => OpenedDevices(db, u, a.deviceToken, now) # {}
                /\ (Outcome(res) = "ok" /\ OpenedDevices(db, u, a.deviceToken, now) = {}) =>
                      /\ res.pr.r.type = "mfa_challenge"
                      /\ res.pr.r.challengeId = db.nextChallengeId
                      /\ ChallengeExists(res.db, res.pr.r.challengeId)
                      /\ res.db.mfaChallenges[res.pr.r.challengeId].type = "login"
                      /\ res.db.mfaChallenges[res.pr.r.challengeId].userId = u
                      /\ res.db.mfaChallenges[res.pr.r.challengeId].expiresAt
                            = now + env.MFA_CHALLENGE_TTL_SECONDS

\* A login of a user with active MFA that presents the token of an unexpired
\* remembered device and is answered with tokens.
C3_Witness ==
    \E a \in LoginInputs(db) :
        LET u == UserIdByEmail(db, normalizeEmail(a.email))
        IN  /\ u # 0
            /\ ActiveMfa(db, u)
            /\ OpenedDevices(db, u, a.deviceToken, now) # {}
            /\ Outcome(LoginOf(db, a, now, env)) = "ok"
            /\ LoginOf(db, a, now, env).pr.r.tokenId # 0

VerifyOf(d, a, t, e) == Serve(d, "verifyMfaChallenge", a, t, e)

Consumed(d) == {c \in DOMAIN d.mfaChallenges : d.mfaChallenges[c].consumedAt # NoTime}

RefusedAsSpent(d, res) ==
    /\ Outcome(res) \in {"AUTH_MFA_CHALLENGE_INVALID", "AUTH_MFA_CHALLENGE_EXPIRED"}
    /\ res.db.refreshTokens = d.refreshTokens

\* C4: once a challenge has consumedAt set, every later verification against
\* its id, through verifyMfaChallenge or through login carrying challengeId
\* and mfaCode, fails with ChallengeInvalid (or ChallengeExpired once it has
\* expired) and issues no session, even when the code is currently valid.
C4_ConsumedChallengeIsSpent ==
    \A a \in LoginWithCodeInputs(db, now) :
        a.challengeId \in Consumed(db) =>
            /\ RefusedAsSpent(db, VerifyOf(db, a, now, env))
            /\ RefusedAsSpent(db, LoginOf(db, a, now, env))

\* What a challenge is meant to accept at instant t: a TOTP of its secret
\* within the window and, for a login challenge, an unused backup code of
\* the user's configuration.
Acceptable(d, challenge, code, t) ==
    \/ /\ code.shape = "totp"
       /\ SecretFor(d, challenge) # 0
       /\ code.v[1] = SecretFor(d, challenge)
       /\ code.v[2] \in (TotpCounter(t) - TotpWindow)..(TotpCounter(t) + TotpWindow)
    \/ /\ challenge.type = "login"
       /\ code.shape = "backup"
       /\ \E b \in DOMAIN d.backupCodes :
             /\ d.backupCodes[b].userMfaId = challenge.userMfaId
             /\ d.backupCodes[b].usedAt = NoTime
             /\ d.backupCodes[b].codeHash = Hash(code)

Live(d, c, t) ==
    /\ ChallengeExists(d, c)
    /\ d.mfaChallenges[c].expiresAt >= t
    /\ d.mfaChallenges[c].consumedAt = NoTime

IncorrectCodes(d, c, t) ==
    {code \in CodeChoices(d, c, t) : ~Acceptable(d, d.mfaChallenges[c], code, t)}

\* C5: for a challenge with max-attempts N, each of the first N-1
\* verifications with an incorrect code raises CodeIncorrect and persists
\* attempts incremented by one; the N-th deletes the challenge and raises
\* ChallengeLocked; every later verification of that id yields
\* ChallengeInvalid.
C5_AttemptsThenLock ==
    \A c \in DOMAIN db.mfaChallenges :
        /\ db.mfaChallenges[c].attempts < env.MFA_MAX_ATTEMPTS
        /\ Live(db, c, now) =>
              \A code \in IncorrectCodes(db, c, now) :
                  LET res == VerifyOf(db, VerifyArgs(c, code), now, env)
                  IN  IF db.mfaChallenges[c].attempts + 1 < env.MFA_MAX_ATTEMPTS
                      THEN /\ Outcome(res) = "AUTH_MFA_CODE_INCORRECT"
                           /\ res.db = [db EXCEPT !.mfaChallenges[c].attempts = @ + 1]
                      ELSE /\ Outcome(res) = "AUTH_MFA_CHALLENGE_LOCKED"
                           /\ res.db = [db EXCEPT !.mfaChallenges = Remove(@, {c})]
                           /\ \A again \in CodeChoices(db, c, now), t \in LaterInstants(now) :
                                 /\ Outcome(VerifyOf(res.db, VerifyArgs(c, again), t, env))
                                       = "AUTH_MFA_CHALLENGE_INVALID"
                                 /\ VerifyOf(res.db, VerifyArgs(c, again), t, env).db = res.db

\* A live challenge that has failures on record and is locked by one more.
C5_Witness ==
    \E c \in DOMAIN db.mfaChallenges :
        /\ Live(db, c, now)
        /\ db.mfaChallenges[c].attempts >= 1
        /\ \E code \in IncorrectCodes(db, c, now) :
              Outcome(VerifyOf(db, VerifyArgs(c, code), now, env)) = "AUTH_MFA_CHALLENGE_LOCKED"

\* k consecutive verifications with the same arguments: their outcomes and
\* the tables after the last.
RECURSIVE Repeat(_, _, _, _, _)
Repeat(d, a, k, t, e) ==
    IF k = 0
    THEN [db |-> d, outcomes |-> <<>>]
    ELSE LET before == Repeat(d, a, k - 1, t, e)
             res == VerifyOf(before.db, a, t, e)
         IN  [db |-> res.db, outcomes |-> Append(before.outcomes, Outcome(res))]

FreshLoginChallenges(d, t) ==
    {c \in DOMAIN d.mfaChallenges :
        /\ Live(d, c, t)
        /\ d.mfaChallenges[c].type = "login"
        /\ d.mfaChallenges[c].attempts = 0}

\* C6 as stated: under the default configuration, of six consecutive wrong
\* codes against one login challenge the 6th call is the one that raises
\* ChallengeLocked, and after it the challenge id no longer resolves.
C6_SixthWrongCodeLocks ==
    \A c \in FreshLoginChallenges(db, now) :
        \A code \in IncorrectCodes(db, c, now) :
            LET run == Repeat(db, VerifyArgs(c, code), 6, now, env)
            IN  /\ \A k \in 1..5 : run.outcomes[k] # "AUTH_MFA_CHALLENGE_LOCKED"
                /\ run.outcomes[6] = "AUTH_MFA_CHALLENGE_LOCKED"
                /\ ~ChallengeExists(run.db, c)

\* C6 as the code has it: under the default configuration (MFA_MAX_ATTEMPTS
\* = 5), of six consecutive wrong codes against one login challenge the
\* first four raise CodeIncorrect, the 5th is the one that raises
\* ChallengeLocked and deletes the challenge, and the 6th finds no challenge
\* (ChallengeInvalid).
C6_FifthWrongCodeLocks ==
    \A c \in FreshLoginChallenges(db, now) :
        \A code \in IncorrectCodes(db, c, now) :
            LET run == Repeat(db, VerifyArgs(c, code), 6, now, env)
            IN  /\ \A k \in 1..4 : run.outcomes[k] = "AUTH_MFA_CODE_INCORRECT"
                /\ run.outcomes[5] = "AUTH_MFA_CHALLENGE_LOCKED"
                /\ ~ChallengeExists(Repeat(db, VerifyArgs(c, code), 5, now, env).db, c)
                /\ run.outcomes[6] = "AUTH_MFA_CHALLENGE_INVALID"

\* A login challenge with four failures on record that the next wrong code
\* locks.
C6_Witness ==
    \E c \in DOMAIN db.mfaChallenges :
        /\ Live(db, c, now)
        /\ db.mfaChallenges[c].type = "login"
        /\ db.mfaChallenges[c].attempts = 4
        /\ \E code \in IncorrectCodes(db, c, now) :
              Outcome(VerifyOf(db, VerifyArgs(c, code), now, env)) = "AUTH_MFA_CHALLENGE_LOCKED"

\* A user with active MFA logs in with the password and presents backup
\* code i of the configuration to the challenge that login created.
PasswordOf(d, userId) == CHOOSE pw \in Passwords : d.users[userId].passwordHash = Hash(pw)

BackupCode(d, userId, i) == Code("backup", <<GenerationOf(d, userId), i>>, FALSE)

FreshChallenge(d, userId, t, e) ==
    LoginOf(d, [NoArgs EXCEPT !.email = d.users[userId].email,
                              !.password = PasswordOf(d, userId)], t, e)

BackupTry(d, userId, i, t, e) ==
    LET challenge == FreshChallenge(d, userId, t, e)
    IN  VerifyOf(challenge.db,
                 VerifyArgs(challenge.pr.r.challengeId, BackupCode(d, userId, i)), t, e)

Unused(d, userId, i) ==
    d.backupCodes[BackupCodeId(GenerationOf(d, userId), i)].usedAt = NoTime

FailedAttempt(d, c, e) ==
    IF d.mfaChallenges[c].attempts + 1 >= e.MFA_MAX_ATTEMPTS
    THEN "AUTH_MFA_CHALLENGE_LOCKED"
    ELSE "AUTH_MFA_CODE_INCORRECT"

LiveLoginChallenges(d, userId, t) ==
    {c \in DOMAIN d.mfaChallenges :
        /\ Live(d, c, t)
        /\ d.mfaChallenges[c].type = "login"
        /\ d.mfaChallenges[c].userId = userId}

\* C9: in a sequential run each of the 8 backup codes of a configuration is
\* accepted by exactly one login-challenge verification: while it is unused
\* a verification presenting it succeeds and marks it (and no other code)
\* used; once it is used, a verification presenting it on any live login
\* challenge of that user, a new one or one that was pending, is counted as
\* a failed attempt (CodeIncorrect, or ChallengeLocked when that failure is
\* the challenge's last) and issues no session.
C9_BackupCodeAcceptedOnce ==
    \A u \in {x \in DOMAIN db.users : ActiveMfa(db, x)}, i \in 1..BACKUP_CODE_COUNT :
        LET id == BackupCodeId(GenerationOf(db, u), i)
            first == BackupTry(db, u, i, now, env)
        IN  /\ id \in DOMAIN db.backupCodes
            /\ db.backupCodes[id].codeHash = Hash(BackupCode(db, u, i))
            /\ Unused(db, u, i) =>
                  /\ Outcome(first) = "ok"
                  /\ first.pr.r.tokenId \notin DOMAIN db.refreshTokens
                  /\ first.pr.r.tokenId \in DOMAIN first.db.refreshTokens
                  /\ first.db.backupCodes = [db.backupCodes EXCEPT ![id].usedAt = now]
                  /\ Outcome(BackupTry(first.db, u, i, now, env)) = "AUTH_MFA_CODE_INCORRECT"
                  /\ BackupTry(first.db, u, i, now, env).db.refreshTokens
                        = first.db.refreshTokens
                  /\ BackupTry(first.db, u, i, now, env).db.backupCodes
                        = first.db.backupCodes
            /\ ~Unused(db, u, i) =>
                  /\ Outcome(first) = "AUTH_MFA_CODE_INCORRECT"
                  /\ first.db.refreshTokens = db.refreshTokens
                  /\ first.db.backupCodes = db.backupCodes
            /\ \A c \in LiveLoginChallenges(db, u, now) :
                  LET res == VerifyOf(db, VerifyArgs(c, BackupCode(db, u, i)), now, env)
                  IN  IF Unused(db, u, i)
                      THEN /\ Outcome(res) = "ok"
                           /\ res.db.backupCodes = [db.backupCodes EXCEPT ![id].usedAt = now]
                      ELSE /\ Outcome(res) = FailedAttempt(db, c, env)
                           /\ res.db.refreshTokens = db.refreshTokens
                           /\ res.db.backupCodes = db.backupCodes

\* A backup code that a login-challenge verification has used, presented
\* again to a new login challenge and refused.
C9_Witness ==
    \E u \in {x \in DOMAIN db.users : ActiveMfa(db, x)}, i \in 1..BACKUP_CODE_COUNT :
        /\ ~Unused(db, u, i)
        /\ \E j \in 1..BACKUP_CODE_COUNT : Unused(db, u, j)
        /\ Outcome(BackupTry(db, u, i, now, env)) = "AUTH_MFA_CODE_INCORRECT"

\* The ways a client types the address of name n.
EmailVariants(n) == {Email(n, up, pad) : up \in BOOLEAN, pad \in BOOLEAN}

SignupOf(d, a, t, e) == Serve(d, "signup", a, t, e)

PasswordLogin(email, password) ==
    [NoArgs EXCEPT !.email = email, !.password = password]

\* The response is an authenticated result for user u carrying a refresh
\* token that the call created, and lastLoginAt of u is the call's instant.
Authenticated(d, res, u, t) ==
    /\ Outcome(res) = "ok"
    /\ res.pr.r.type = "authenticated"
    /\ res.pr.r.userId = u
    /\ res.pr.r.tokenId \notin DOMAIN d.refreshTokens
    /\ res.pr.r.tokenId \in DOMAIN res.db.refreshTokens
    /\ res.db.refreshTokens[res.pr.r.tokenId].userId = u
    /\ res.db.refreshTokens[res.pr.r.tokenId].revokedAt = NoTime
    /\ res.db.users[u].lastLoginAt = t

\* C11: for every e-mail and password that signup accepts, a later login
\* with the same e-mail, typed in any letter case and with or without
\* surrounding whitespace, and the same password returns an authenticated
\* result with tokens and sets lastLoginAt, as long as no MFA configuration
\* has been activated for the user.
C11_SignupThenLogin ==
    /\ \A n \in Names, pw \in Passwords :
          \A typed \in EmailVariants(n) :
              LET signedUp == SignupOf(db, [NoArgs EXCEPT !.email = typed,
                                                          !.password = pw,
                                                          !.acceptTerms = TRUE], now, env)
              IN  Outcome(signedUp) = "ok" =>
                      \A again \in EmailVariants(n), t \in LaterInstants(now) :
                          Authenticated(signedUp.db,
                                        LoginOf(signedUp.db, PasswordLogin(again, pw), t, env),
                                        signedUp.pr.r.userId, t)
    /\ \A u \in DOMAIN db.users :
          ~ActiveMfa(db, u) =>
              \A again \in EmailVariants(db.users[u].email.name) :
                  Authenticated(db,
                                LoginOf(db, PasswordLogin(again, PasswordOf(db, u)), now, env),
                                u, now)

\* A user who has signed up, has logged in before and has started an MFA
\* enrolment without completing it logs in with the address typed in upper
\* case with surrounding whitespace.
C11_Witness ==
    \E u \in DOMAIN db.users :
        /\ ~ActiveMfa(db, u)
        /\ db.users[u].lastLoginAt # NoTime
        /\ \E c \in DOMAIN db.mfaChallenges :
              db.mfaChallenges[c].userId = u /\ db.mfaChallenges[c].type = "setup"
        /\ Authenticated(db,
                         LoginOf(db, PasswordLogin(Email(db.users[u].email.name, TRUE, TRUE),
                                                   PasswordOf(db, u)), now, env),
                         u, now)

\* Addresses a client logs in with: the names of the model and a name that
\* never signs up, typed plainly or in upper case with whitespace around.
LoginEmails ==
    {Email(n, typed, typed) : n \in Names \cup {"nobody"}, typed \in BOOLEAN}

\* A login that presents an address no user has or a password that is not
\* the user's.
WrongCredentials(d, a) ==
    \/ UserIdByEmail(d, normalizeEmail(a.email)) = 0
    \/ d.users[UserIdByEmail(d, normalizeEmail(a.email))].passwordHash # Hash(a.password)

CredentialLogins ==
    {[NoArgs EXCEPT !.email = email, !.password = password, !.deviceToken = deviceToken] :
        email \in LoginEmails, password \in Passwords \cup {"never"},
        deviceToken \in 0..MaxDevices}

Suspended(d) == {u \in DOMAIN d.users : d.users[u].status = "suspended"}

Unactivated(d, u) ==
    u \notin DOMAIN d.mfaSettings \/ d.mfaSettings[u].activatedAt = NoTime

EnrolOf(d, u, t, e) ==
    Serve(d, "startMfaEnrollment", [NoArgs EXCEPT !.userId = u], t, e)

LoginChallengesOf(d, u) ==
    {c \in DOMAIN d.mfaChallenges :
        d.mfaChallenges[c].type = "login" /\ d.mfaChallenges[c].userId = u}

\* The verification is refused as invalid, issues nothing and leaves the
\* challenge deleted.
DeletedAsInvalid(d, res, c) ==
    /\ Outcome(res) = "AUTH_MFA_CHALLENGE_INVALID"
    /\ res.pr.r.tokenId = 0
    /\ res.db = [d EXCEPT !.mfaChallenges = Remove(@, {c})]

\* C14: a user whose MFA configuration is absent or has activatedAt = null
\* is treated as having no MFA: login with the right credentials issues a
\* session directly and creates no challenge, startMfaEnrollment is not
\* rejected, and a pending login challenge of such a user cannot be
\* completed with any code: it is deleted and ChallengeInvalid is raised.
C14_UnactivatedMeansNoMfa ==
    \A u \in DOMAIN db.users :
        Unactivated(db, u) =>
            /\ \A deviceToken \in 0..MaxDevices :
                  LET res == LoginOf(db, [PasswordLogin(db.users[u].email, PasswordOf(db, u))
                                             EXCEPT !.deviceToken = deviceToken], now, env)
                  IN  /\ Authenticated(db, res, u, now)
                      /\ res.db.mfaChallenges = db.mfaChallenges
                      /\ res.pr.r.challengeId = 0
            /\ LET enrol == EnrolOf(db, u, now, env)
               IN  /\ Outcome(enrol) = "ok"
                   /\ enrol.pr.r.challengeId = db.nextChallengeId
                   /\ enrol.db.mfaChallenges[enrol.pr.r.challengeId].type = "setup"
                   /\ enrol.db.mfaSettings = db.mfaSettings
            /\ \A c \in LoginChallengesOf(db, u) :
                  \A code \in CodeChoices(db, c, now), rd \in BOOLEAN :
                      LET a == [VerifyArgs(c, code) EXCEPT !.rememberDevice = rd]
                      IN  /\ Live(db, c, now) => DeletedAsInvalid(db, VerifyOf(db, a, now, env), c)
                          /\ DeletedAsInvalid(db, LoginOf(db, a, now, env), c)

\* A user whose configuration has activatedAt = null and still has unused
\* backup codes holds a pending login challenge, and the current TOTP of
\* the configuration's secret is refused.
C14_Witness ==
    \E u \in DOMAIN db.users :
        /\ HasMfa(db, u)
        /\ Unactivated(db, u)
        /\ \E b \in listMfaBackupCodes(db, db.mfaSettings[u].id) :
              db.backupCodes[b].usedAt = NoTime
        /\ \E c \in LoginChallengesOf(db, u) :
              /\ Live(db, c, now)
              /\ Outcome(VerifyOf(db, VerifyArgs(c,
                     generateTotp(decryptSecret(db.mfaSettings[u].secretEncrypted), now)),
                     now, env)) = "AUTH_MFA_CHALLENGE_INVALID"

SetupChallenges(d, t) ==
    {c \in DOMAIN d.mfaChallenges : Live(d, c, t) /\ d.mfaChallenges[c].type = "setup"}

\* The backup codes a setup verification hands to the caller.
ReturnedBackupCodes(res) ==
    IF res.pr.r.backupGen = 0
    THEN <<>>
    ELSE generateBackupCodes(res.pr.r.backupGen, BACKUP_CODE_COUNT)

\* The values of the backup codes stored for the user's configuration.
StoredBackupCodes(d, u) ==
    {Code("backup", <<GenerationOf(d, u), i>>, FALSE) : i \in 1..BACKUP_CODE_COUNT}

\* Presenting a code to the challenge of a new password login.
PresentTo(d, u, code, t, e) ==
    LET challenge == FreshChallenge(d, u, t, e)
    IN  VerifyOf(challenge.db, VerifyArgs(challenge.pr.r.challengeId, code), t, e)

\* C15: a successful setup-challenge verification sets activatedAt of the
\* user's configuration, replaces the configuration's whole backup-code set
\* (no code of a previous set remains stored or usable), marks the
\* challenge consumed and returns exactly 8 backup codes with result type
\* 'setup'; a failed setup verification changes none of these.
C15_SetupActivatesAndReplacesCodes ==
    \A c \in SetupChallenges(db, now) :
        \A code \in CodeChoices(db, c, now), rd \in BOOLEAN :
            LET challenge == db.mfaChallenges[c]
                u == challenge.userId
                res == VerifyOf(db, [VerifyArgs(c, code) EXCEPT !.rememberDevice = rd], now, env)
                returned == ReturnedBackupCodes(res)
            IN  IF Acceptable(db, challenge, code, now)
                THEN /\ Outcome(res) = "ok"
                     /\ res.pr.r.type = "setup"
                     /\ res.db.mfaSettings[u].activatedAt = now
                     /\ res.db.mfaSettings[u].secretEncrypted = challenge.secretEncrypted
                     /\ res.db.mfaChallenges[c] = [challenge EXCEPT !.consumedAt = now]
                     /\ Len(returned) = 8
                     /\ Cardinality({returned[i] : i \in DOMAIN returned}) = 8
                     /\ Cardinality(listMfaBackupCodes(res.db, res.db.mfaSettings[u].id)) = 8
                     /\ {res.db.backupCodes[b].codeHash :
                            b \in listMfaBackupCodes(res.db, res.db.mfaSettings[u].id)}
                          = {Hash(returned[i]) : i \in DOMAIN returned}
                     /\ \A b \in listMfaBackupCodes(res.db, res.db.mfaSettings[u].id) :
                            res.db.backupCodes[b].usedAt = NoTime
                     /\ DOMAIN res.db.backupCodes \cap DOMAIN db.backupCodes = {}
                     /\ HasMfa(db, u) /\ GenerationOf(db, u) # 0 =>
                            \A old \in StoredBackupCodes(db, u) :
                                LET try == PresentTo(res.db, u, old, now, env)
                                IN  /\ Outcome(try) = "AUTH_MFA_CODE_INCORRECT"
                                    /\ try.pr.r.tokenId = 0
                ELSE /\ Outcome(res) \in {"AUTH_MFA_CODE_INCORRECT", "AUTH_MFA_CHALLENGE_LOCKED"}
                     /\ returned = <<>>
                     /\ res.db.mfaSettings = db.mfaSettings
                     /\ res.db.backupCodes = db.backupCodes
                     /\ ChallengeExists(res.db, c) =>
                            res.db.mfaChallenges[c].consumedAt = NoTime

\* A pending setup challenge of a user whose configuration already has a
\* backup-code set is verified with the current TOTP of the challenge's
\* secret.
C15_Witness ==
    \E c \in SetupChallenges(db, now) :
        LET u == db.mfaChallenges[c].userId
        IN  /\ HasMfa(db, u)
            /\ Cardinality(listMfaBackupCodes(db, db.mfaSettings[u].id)) = 8
            /\ Outcome(VerifyOf(db, VerifyArgs(c,
                   generateTotp(decryptSecret(db.mfaChallenges[c].secretEncrypted), now)),
                   now, env)) = "ok"

\* The ids of challenges that were created and are no longer stored.
Deleted(d) == (1..(d.nextChallengeId - 1)) \ DOMAIN d.mfaChallenges

\* The call leaves every consumed challenge stored with the consumedAt it
\* had, and creates no row for a deleted id.
KeepsTerminal(d, res) ==
    /\ \A c \in Consumed(d) :
          /\ ChallengeExists(res.db, c)
          /\ res.db.mfaChallenges[c].consumedAt = d.mfaChallenges[c].consumedAt
    /\ \A c \in Deleted(d) : ~ChallengeExists(res.db, c)

\* C16: every challenge undergoes at most one terminal transition: it is
\* marked consumed or it is deleted (on expiry or lockout), never both; no
\* verification call, through verifyMfaChallenge or through login carrying
\* challengeId and mfaCode, deletes or consumes again a challenge that is
\* consumed, or consumes one that is deleted.
C16_OneTerminalTransition ==
    \A a \in LoginWithCodeInputs(db, now) :
        /\ KeepsTerminal(db, VerifyOf(db, a, now, env))
        /\ KeepsTerminal(db, LoginOf(db, a, now, env))

\* The remembered devices of a user's configuration whose expiresAt has
\* passed at t.
ExpiredDevices(d, u, t) ==
    {x \in DOMAIN d.rememberedDevices :
        /\ d.rememberedDevices[x].userMfaId = d.mfaSettings[u].id
        /\ d.rememberedDevices[x].expiresAt < t}

DeviceLogin(d, u, deviceToken) ==
    [PasswordLogin(d.users[u].email, PasswordOf(d, u)) EXCEPT !.deviceToken = deviceToken]

\* The login is answered with a challenge descriptor and no token.
Challenged(d, res, u) ==
    /\ Outcome(res) = "ok"
    /\ res.pr.r.type = "mfa_challenge"
    /\ res.pr.r.tokenId = 0
    /\ res.db.refreshTokens = d.refreshTokens
    /\ res.pr.r.challengeId = d.nextChallengeId
    /\ ChallengeExists(res.db, res.pr.r.challengeId)

NoDeviceRemembered(d, res) ==
    /\ res.db.rememberedDevices = d.rememberedDevices
    /\ res.db.nextDeviceId = d.nextDeviceId
    /\ res.pr.r.deviceToken = 0

\* The call stored one remembered device for the configuration, lasting
\* MFA_REMEMBER_DEVICE_DAYS, and returned its token.
OneDeviceRemembered(d, res, userMfaId, t, e) ==
    /\ res.pr.r.deviceToken # 0
    /\ DOMAIN res.db.rememberedDevices = DOMAIN d.rememberedDevices \cup {d.nextDeviceId}
    /\ d.nextDeviceId \notin DOMAIN d.rememberedDevices
    /\ \A x \in DOMAIN d.rememberedDevices : res.db.rememberedDevices[x] = d.rememberedDevices[x]
    /\ res.db.rememberedDevices[d.nextDeviceId] =
          [ userMfaId |-> userMfaId, tokenHash |-> Hash(res.pr.r.deviceToken),
            expiresAt |-> t + e.MFA_REMEMBER_DEVICE_DAYS * 24 * 60 * 60,
            lastUsedAt |-> NoTime ]

\* The codes a client types against a challenge, backup codes also in
\* lower case.
TypedCodes(d, c, t) ==
    CodeChoices(d, c, t)
        \cup {[code EXCEPT !.lower = TRUE] :
                 code \in {x \in CodeChoices(d, c, t) : x.shape = "backup"}}

\* C18: a login challenge completed with a backup code never creates a
\* remembered device and never returns a remembered-device token, even with
\* rememberDevice = true; a remembered device is created only when a login
\* challenge succeeds with a TOTP code and rememberDevice = true.
C18_BackupCodeNeverRemembersDevice ==
    \A c \in DOMAIN db.mfaChallenges :
        \A code \in TypedCodes(db, c, now), rd \in BOOLEAN :
            LET a == [VerifyArgs(c, code) EXCEPT !.rememberDevice = rd]
                challenge == db.mfaChallenges[c]
                Remembers(res) ==
                    IF /\ Outcome(res) = "ok"
                       /\ res.pr.r.type \in {"login", "authenticated"}
                       /\ code.shape = "totp"
                       /\ rd
                    THEN OneDeviceRemembered(db, res, db.mfaSettings[challenge.userId].id,
                                             now, env)
                    ELSE NoDeviceRemembered(db, res)
            IN  /\ Remembers(VerifyOf(db, a, now, env))
                /\ Remembers(LoginOf(db, a, now, env))
                /\ (Live(db, c, now) /\ challenge.type = "login"
                      /\ ActiveMfa(db, challenge.userId)
                      /\ Acceptable(db, challenge, toUpperCase(code), now))
                      => Outcome(VerifyOf(db, a, now, env)) = "ok"

\* A pending login challenge is completed with an unused backup code typed
\* in lower case and rememberDevice = true: a session is issued and no
\* device is remembered, while the current TOTP would have stored one.
C18_Witness ==
    \E c \in DOMAIN db.mfaChallenges :
        LET challenge == db.mfaChallenges[c]
            useBackup == VerifyOf(db, [VerifyArgs(c,
                             [BackupCode(db, challenge.userId, 1) EXCEPT !.lower = TRUE])
                               EXCEPT !.rememberDevice = TRUE], now, env)
            useTotp == VerifyOf(db, [VerifyArgs(c, generateTotp(SecretFor(db, challenge), now))
                               EXCEPT !.rememberDevice = TRUE], now, env)
        IN  /\ challenge.type = "login"
            /\ Outcome(useBackup) = "ok"
            /\ useBackup.pr.r.tokenId # 0
            /\ NoDeviceRemembered(db, useBackup)
            /\ Outcome(useTotp) = "ok"
            /\ useTotp.pr.r.deviceToken # 0

\* The cookies a client presents for a stored refresh token: its genuine
\* value and the id with another secret.
CookiesOf(id) == {RefreshTokenValue(id), <<id, SecretOf(id) + 1>>}

RefreshOf(d, token, t, e) ==
    Serve(d, "refreshSession", [NoArgs EXCEPT !.token = token], t, e)

\* C19: a successful refreshSession returns a new refresh token different
\* from the presented one, leaves the new token stored unrevoked, and
\* leaves the presented token revoked with replacedByTokenId equal to the
\* new token's id; no other token is touched.
C19_RefreshRotatesAndChains ==
    \A id \in DOMAIN db.refreshTokens :
        \A token \in CookiesOf(id) :
            LET res == RefreshOf(db, token, now, env)
                new == res.pr.r.tokenId
                old == db.refreshTokens[id]
            IN  Outcome(res) = "ok" =>
                    /\ new # id
                    /\ RefreshTokenValue(new) # token
                    /\ new \notin DOMAIN db.refreshTokens
                    /\ DOMAIN res.db.refreshTokens = DOMAIN db.refreshTokens \cup {new}
                    /\ res.db.refreshTokens[new] =
                          [ userId |-> old.userId, tokenHash |-> Hash(SecretOf(new)),
                            issuedAt |-> now,
                            expiresAt |-> now + Min(env.REFRESH_TOKEN_TTL_SECONDS, SevenDays),
                            revokedAt |-> NoTime, replacedByTokenId |-> 0 ]
                    /\ res.db.refreshTokens[id] =
                          [old EXCEPT !.revokedAt = now, !.replacedByTokenId = new]
                    /\ \A other \in DOMAIN db.refreshTokens \ {id} :
                          res.db.refreshTokens[other] = db.refreshTokens[other]
                    /\ Outcome(RefreshWith(res.db, new, now, env)) = "ok"

\* A refresh token is redeemed while another user holds an unrevoked token
\* of their own.
C19_Witness ==
    \E id \in DOMAIN db.refreshTokens :
        /\ \E other \in DOMAIN db.refreshTokens :
              /\ db.refreshTokens[other].userId # db.refreshTokens[id].userId
              /\ db.refreshTokens[other].revokedAt = NoTime
        /\ Outcome(RefreshWith(db, id, now, env)) = "ok"

\* What refreshSession answers for an unrevoked stored token: expiry is
\* tested first, then the secret, then the owner's status.
RefreshVerdict(d, id, token, t) ==
    IF d.refreshTokens[id].expiresAt <= t
    THEN "AUTH_REFRESH_TOKEN_EXPIRED"
    ELSE IF d.refreshTokens[id].tokenHash # Hash(token[2])
    THEN "AUTH_INVALID_REFRESH_TOKEN"
    ELSE IF d.users[d.refreshTokens[id].userId].status = "suspended"
    THEN "AUTH_ACCOUNT_SUSPENDED"
    ELSE "ok"

\* C20: refreshSession on a stored, unrevoked token that cannot be redeemed
\* revokes that token and creates no new token: an expired token yields
\* RefreshTokenExpired, a secret that does not match the stored hash yields
\* InvalidRefreshToken, a suspended owner yields AccountSuspended, tested
\* in that order.
C20_UnredeemableTokenIsRevoked ==
    \A id \in DOMAIN db.refreshTokens :
        db.refreshTokens[id].revokedAt = NoTime =>
            \A token \in CookiesOf(id) :
                LET res == RefreshOf(db, token, now, env)
                IN  /\ Outcome(res) = RefreshVerdict(db, id, token, now)
                    /\ Outcome(res) # "ok" =>
                          /\ res.db = [db EXCEPT !.refreshTokens[id].revokedAt = now]
                          /\ res.pr.r.tokenId = 0
                          /\ Outcome(RefreshWith(res.db, id, now, env))
                                = "AUTH_REFRESH_TOKEN_REVOKED"

\* An unrevoked token that has expired and whose owner is suspended is
\* presented with a wrong secret and refused as expired, while an unexpired
\* token of a suspended owner is refused for the status.
C20_Witness ==
    /\ \E id \in DOMAIN db.refreshTokens :
          /\ db.refreshTokens[id].revokedAt = NoTime
          /\ db.refreshTokens[id].expiresAt <= now
          /\ db.users[db.refreshTokens[id].userId].status = "suspended"
          /\ Outcome(RefreshOf(db, <<id, SecretOf(id) + 1>>, now, env))
                = "AUTH_REFRESH_TOKEN_EXPIRED"
    /\ \E id \in DOMAIN db.refreshTokens :
          /\ db.refreshTokens[id].revokedAt = NoTime
          /\ Outcome(RefreshWith(db, id, now, env)) = "AUTH_ACCOUNT_SUSPENDED"

RequestResetOf(d, email, t, e) ==
    Serve(d, "requestPasswordReset", [NoArgs EXCEPT !.email = email], t, e)

ResetWith(d, resetToken, t, e) ==
    Serve(d, "resetPassword",
          [NoArgs EXCEPT !.resetToken = resetToken, !.newPassword = NewPassword], t, e)

\* C21: requestPasswordReset for an e-mail that matches no user returns
\* requested = false and changes nothing (no reset token, no e-mail, no
\* audit event); for a known user it creates one reset token, valid for
\* PASSWORD_RESET_TOKEN_TTL_MINUTES and redeemable, sends one e-mail,
\* records one audit event and returns requested = true.
C21_ResetRequestOnlyForKnownUser ==
    \A email \in LoginEmails :
        LET u == UserIdByEmail(db, normalizeEmail(email))
            res == RequestResetOf(db, email, now, env)
            created == DOMAIN res.db.passwordResetTokens \ DOMAIN db.passwordResetTokens
        IN  /\ Outcome(res) = "ok"
            /\ IF u = 0
               THEN /\ res.pr.r.requested = FALSE
                    /\ res.db = db
                    /\ res.pr.r.nEmail = 0
                    /\ res.pr.r.nAudit = 0
               ELSE /\ res.pr.r.requested = TRUE
                    /\ Cardinality(created) = 1
                    /\ \A token \in created :
                          /\ res.db = [db EXCEPT !.passwordResetTokens = Put(@, token,
                                          [ userId |-> u,
                                            expiresAt |-> now + env.PASSWORD_RESET_TOKEN_TTL_MINUTES * 60,
                                            consumedAt |-> NoTime ])]
                          /\ Outcome(ResetWith(res.db, token, now, env)) = "ok"
                          /\ ResetWith(res.db, token, now, env).pr.r.userId = u
                    /\ res.pr.r.nEmail = 1
                    /\ res.pr.r.nAudit = 1

\* A user who already holds a reset token asks for another with the address
\* typed in upper case with whitespace around, while another address of the
\* model belongs to nobody.
C21_Witness ==
    /\ \E u \in DOMAIN db.users :
          /\ \E token \in DOMAIN db.passwordResetTokens :
                db.passwordResetTokens[token].userId = u
          /\ RequestResetOf(db, Email(db.users[u].email.name, TRUE, TRUE), now, env).pr.r.requested
    /\ \E n \in Names :
          /\ UserIdByEmail(db, Email(n, FALSE, FALSE)) = 0
          /\ ~RequestResetOf(db, Email(n, FALSE, FALSE), now, env).pr.r.requested

\* C22: a password-reset token is single-use: of two resetPassword calls
\* carrying the same token and served concurrently at most one succeeds and
\* changes the password hash.
C22_ResetTokenSingleUse ==
    (Finished("resetPassword") /\ procs[1].a.resetToken = procs[2].a.resetToken)
        => Cardinality(Succeeded) <= 1

\* C23: no two users share a normalized e-mail: a signup whose normalized
\* e-mail is taken fails with EmailAlreadyExists and creates no user, also
\* when two signups for the same e-mail are served concurrently (the one
\* that does not create the user fails with EmailAlreadyExists).
C23_DuplicateSignupRejected ==
    /\ \A u1 \in DOMAIN db.users, u2 \in DOMAIN db.users :
          db.users[u1].email = db.users[u2].email => u1 = u2
    /\ (Finished("signup")
          /\ normalizeEmail(procs[1].a.email) = normalizeEmail(procs[2].a.email))
          => /\ Cardinality(Succeeded) <= 1
             /\ \A p \in Procs \ Succeeded : procs[p].r.outcome = "AUTH_EMAIL_EXISTS"

\* The pending secrets of the stored challenges.
PendingSecrets(d) ==
    {d.mfaChallenges[c].secretEncrypted : c \in DOMAIN d.mfaChallenges}

\* C24: startMfaEnrollment for a user whose MFA configuration is active
\* fails with MfaAlreadyEnabled and creates no challenge; otherwise it
\* creates one setup challenge with attempts = 0, consumedAt = null, the
\* configured lifetime and an encrypted pending secret that no stored
\* challenge has, and changes neither the user's MFA configuration nor the backup codes.
C24_EnrollmentOnlyWithoutActiveMfa ==
    \A u \in DOMAIN db.users :
        LET res == EnrolOf(db, u, now, env)
            c == db.nextChallengeId
        IN  IF ~Unactivated(db, u)
            THEN /\ Outcome(res) = "AUTH_MFA_ALREADY_ENABLED"
                 /\ res.db = db
                 /\ res.pr.r.challengeId = 0
            ELSE /\ Outcome(res) = "ok"
                 /\ res.pr.r.challengeId = c
                 /\ c \notin DOMAIN db.mfaChallenges
                 /\ DOMAIN res.db.mfaChallenges = DOMAIN db.mfaChallenges \cup {c}
                 /\ \A x \in DOMAIN db.mfaChallenges :
                        res.db.mfaChallenges[x] = db.mfaChallenges[x]
                 /\ res.db.mfaChallenges[c].userId = u
                 /\ res.db.mfaChallenges[c].type = "setup"
                 /\ res.db.mfaChallenges[c].attempts = 0
                 /\ res.db.mfaChallenges[c].consumedAt = NoTime
                 /\ res.db.mfaChallenges[c].expiresAt = now + env.MFA_CHALLENGE_TTL_SECONDS
                 /\ res.db.mfaChallenges[c].secretEncrypted # NoSecret
                 /\ res.db.mfaChallenges[c].secretEncrypted
                        = encryptSecret(decryptSecret(res.db.mfaChallenges[c].secretEncrypted))
                 /\ res.db.mfaChallenges[c].secretEncrypted \notin PendingSecrets(db)
                 /\ res.db.mfaSettings = db.mfaSettings
                 /\ res.db.backupCodes = db.backupCodes
                 /\ res.db.users = db.users
                 /\ res.db.refreshTokens = db.refreshTokens
                 /\ res.db.rememberedDevices = db.rememberedDevices

\* A user whose configuration was activated and later left with activatedAt
\* = null, with its backup codes stored and a consumed setup challenge on
\* record, starts a new enrolment.
C24_Witness ==
    \E u \in DOMAIN db.users :
        /\ HasMfa(db, u)
        /\ Unactivated(db, u)
        /\ listMfaBackupCodes(db, db.mfaSettings[u].id) # {}
        /\ Consumed(db) # {}
        /\ Outcome(EnrolOf(db, u, now, env)) = "ok"

LogoutOf(d, token, t, e) == Serve(d, "logout", [NoArgs EXCEPT !.token = token], t, e)

\* C25: a refresh token is revoked at logout: after logout is requested
\* with a stored refresh token, that token's revokedAt is set and a
\* refreshSession presenting it afterwards fails.
C25_LogoutRevokesToken ==
    \A id \in DOMAIN db.refreshTokens :
        LET out == LogoutOf(db, RefreshTokenValue(id), now, env)
        IN  /\ Outcome(out) = "ok"
            /\ out.db.refreshTokens[id].revokedAt # NoTime
            /\ Outcome(RefreshWith(out.db, id, now, env)) # "ok"

\* The refresh tokens a call stored.
IssuedBy(d, res) == DOMAIN res.db.refreshTokens \ DOMAIN d.refreshTokens

Lifetime(d, id) == d.refreshTokens[id].expiresAt - d.refreshTokens[id].issuedAt

\* The lifetime the configuration gives a session.
ConfiguredLifetime(e, rememberMe) ==
    IF rememberMe \/ e.REFRESH_TOKEN_TTL_SECONDS <= 7 * 24 * 60 * 60
    THEN e.REFRESH_TOKEN_TTL_SECONDS
    ELSE 7 * 24 * 60 * 60

\* Every refresh token the call stored lives for the configured lifetime.
IssuedFor(d, res, e, rememberMe) ==
    /\ Outcome(res) = "ok" /\ res.pr.r.tokenId # 0 => IssuedBy(d, res) = {res.pr.r.tokenId}
    /\ \A id \in IssuedBy(d, res) : Lifetime(res.db, id) = ConfiguredLifetime(e, rememberMe)

\* C26: every session issuance sets the refresh token lifetime (expiresAt
\* minus issuedAt) to REFRESH_TOKEN_TTL_SECONDS when rememberMe is true and
\* otherwise (rememberMe false, signup, refresh) to min(REFRESH_TOKEN_TTL_SECONDS,
\* 7 days); a login that is answered with a challenge records its
\* rememberMe flag in the challenge, and a login-challenge success uses the
\* recorded flag, whatever flag the completing request carries.
C26_RefreshTokenLifetime ==
    /\ \A a \in SignupInputs(db) :
          IssuedFor(db, SignupOf(db, a, now, env), env, FALSE)
    /\ \A a \in LoginRememberInputs(db) :
          LET res == LoginOf(db, a, now, env)
          IN  /\ IssuedFor(db, res, env, a.rememberMe)
              /\ res.pr.r.challengeId # 0 =>
                    res.db.mfaChallenges[res.pr.r.challengeId].context
                        = [has |-> TRUE, rememberMe |-> a.rememberMe]
    /\ \A id \in DOMAIN db.refreshTokens :
          IssuedFor(db, RefreshWith(db, id, now, env), env, FALSE)
    /\ \A c \in DOMAIN db.mfaChallenges :
          \A code \in CodeChoices(db, c, now), rememberMe \in BOOLEAN :
              LET a == [VerifyArgs(c, code) EXCEPT !.rememberMe = rememberMe]
                  recorded == db.mfaChallenges[c].context.rememberMe
              IN  /\ IssuedFor(db, VerifyOf(db, a, now, env), env, recorded)
                  /\ IssuedFor(db, LoginOf(db, a, now, env), env, recorded)

\* With the default lifetime of 30 days a login challenge created by a login
\* with rememberMe = true is completed by a request carrying rememberMe =
\* false, and the session lives for the full 30 days.
C26_Witness ==
    \E c \in DOMAIN db.mfaChallenges :
        LET res == LoginOf(db, [VerifyArgs(c, generateTotp(SecretFor(db, db.mfaChallenges[c]), now))
                                   EXCEPT !.rememberMe = FALSE], now, env)
        IN  /\ db.mfaChallenges[c].type = "login"
            /\ db.mfaChallenges[c].context.rememberMe
            /\ Outcome(res) = "ok"
            /\ res.pr.r.tokenId \in IssuedBy(db, res)
            /\ Lifetime(res.db, res.pr.r.tokenId) = env.REFRESH_TOKEN_TTL_SECONDS
            /\ env.REFRESH_TOKEN_TTL_SECONDS > 7 * 24 * 60 * 60

\* The first second of the 30-second step that is k steps from the step of t.
StepStart(t, k) == (t \div 30 + k) * 30

\* C27: with a 30-second step the TOTP code is a function of the secret and
\* of counter = floor(time / 30 s) only, and verification at time t accepts
\* a code exactly when it is six digits and is the code of a counter in
\* [c-1, c+1] for c = floor(t / 30 s): codes generated one step before or
\* after verify, codes generated two or more steps away are rejected, and
\* text that is not six digits is rejected whatever it spells.
C27_TotpWindow ==
    /\ \A secret \in TotpSecrets, k \in (0 - 3)..3, j \in {0, 1, 29} :
          LET code == generateTotp(secret, StepStart(now, k) + j)
          IN  /\ code = generateTotp(secret, StepStart(now, k))
              /\ k # 0 => code # generateTotp(secret, StepStart(now, 0))
              /\ isValidTotpToken(secret, code, now) <=> k \in {0 - 1, 0, 1}
              /\ \A shape \in {"backup", "other", "none"} :
                    ~isValidTotpToken(secret, [code EXCEPT !.shape = shape], now)
    /\ \A p \in Procs :
          procs[p].op = "isValidTotpToken" =>
              (procs[p].r.outcome = "valid"
                 <=> /\ procs[p].a.code.shape = "totp"
                     /\ \E k \in {0 - 1, 0, 1} :
                           procs[p].a.code
                               = generateTotp(procs[p].l.secret, StepStart(now, k)))

\* At the last second of a step a code generated in the step before is
\* presented and found valid.
C27_Witness ==
    /\ now % 30 = 29
    /\ procs[1].op = "isValidTotpToken"
    /\ procs[1].a.code = generateTotp(procs[1].l.secret, now - 30)
    /\ procs[1].r.outcome = "valid"

QueueImportOf(d, a, t, e) == Serve(d, "queueImport", a, t, e)

\* C28: queueImport is idempotent per idempotency key: a retry by the same
\* user with the same idempotency key and the same upload id returns the
\* job the first call created, with the same job id, and creates no second
\* job.
C28_QueueImportIdempotent ==
    \A a \in ImportInputs :
        LET first == QueueImportOf(db, a, now, env)
            retry == QueueImportOf(first.db, a, now, env)
        IN  (a.idempotencyKey # 0
               /\ Outcome(first) = "ok"
               /\ first.pr.r.jobId \notin DOMAIN db.importJobs)
                => /\ Outcome(retry) = "ok"
                   /\ retry.pr.r.jobId = first.pr.r.jobId
                   /\ retry.db = first.db

\* C29: the persisted attempts counter of a challenge never decreases:
\* across any sequence or interleaving of verification calls (each reading
\* the challenge and then writing attempts), every write leaves attempts
\* greater than or equal to the value that was stored before it.
C29_AttemptsNeverDecrease ==
    [][\A c \in DOMAIN db.mfaChallenges :
          ChallengeExists(db', c) =>
              db'.mfaChallenges[c].attempts >= db.mfaChallenges[c].attempts]_vars

\* Cookie values that are not two non-empty segments: one segment, an empty
\* first or second segment, the empty string, three segments.
MalformedTokens == {<<1>>, <<1, 0>>, <<0, 1>>, <<0>>, <<1, 1, 1>>}

\* A refusal that wrote nothing: no table changed, nothing audited or sent.
RefusedUntouched(res, error) ==
    /\ Outcome(res) = error
    /\ res.db = db
    /\ res.pr.r.nAudit = 0
    /\ res.pr.r.nEmail = 0

\* C30: refreshSession leaves all persisted state unchanged when it fails
\* because the token value is malformed (not exactly two non-empty
\* segments), the id is unknown, or the token is already revoked; an
\* already revoked token yields RefreshTokenRevoked whether or not it is
\* also expired or the presented secret is wrong, and its revokedAt and
\* replacedByTokenId stay as they were.
C30_FailedRefreshLeavesState ==
    \A t \in LaterInstants(now) :
        /\ \A token \in MalformedTokens :
              RefusedUntouched(RefreshOf(db, token, t, env), "AUTH_INVALID_REFRESH_TOKEN")
        /\ \A id \in (1..(MaxTokens + 1)) \ DOMAIN db.refreshTokens :
              \A token \in CookiesOf(id) :
                  RefusedUntouched(RefreshOf(db, token, t, env),
                                   "AUTH_INVALID_REFRESH_TOKEN")
        /\ \A id \in DOMAIN db.refreshTokens :
              db.refreshTokens[id].revokedAt # NoTime =>
                  \A token \in CookiesOf(id) :
                      LET res == RefreshOf(db, token, t, env)
                      IN  /\ RefusedUntouched(res, "AUTH_REFRESH_TOKEN_REVOKED")
                          /\ res.db.refreshTokens[id].revokedAt =
                                 db.refreshTokens[id].revokedAt
                          /\ res.db.refreshTokens[id].replacedByTokenId =
                                 db.refreshTokens[id].replacedByTokenId

\* A token that was rotated away and has since expired is presented with a
\* wrong secret and refused as revoked, while an id that was never issued
\* is refused as invalid.
C30_Witness ==
    \E id \in DOMAIN db.refreshTokens :
        /\ db.refreshTokens[id].revokedAt # NoTime
        /\ db.refreshTokens[id].replacedByTokenId # 0
        /\ db.refreshTokens[id].expiresAt <= now
        /\ Outcome(RefreshOf(db, <<id, SecretOf(id) + 1>>, now, env)) =
               "AUTH_REFRESH_TOKEN_REVOKED"
        /\ \E other \in (1..(MaxTokens + 1)) \ DOMAIN db.refreshTokens :
               Outcome(RefreshOf(db, RefreshTokenValue(other), now, env)) =
                   "AUTH_INVALID_REFRESH_TOKEN"

\* A request that registers a failed attempt in this step: it was at the
\* write of registerFailedMfaAttempt and the challenge it read is stored.
RegistersFailure(p) ==
    /\ procs[p].pc = "fail_incr"
    /\ procs'[p].pc # "fail_incr"
    /\ ChallengeExists(db, procs[p].l.challenge.id)

\* C31: across any interleaving of concurrent verification calls on one
\* challenge, the number of failed attempts accepted against it before it
\* is deleted never exceeds max-attempts, because no failed attempt is lost
\* from the persisted attempts counter: every failed attempt that is
\* registered raises the stored counter by one.
C31_NoFailedAttemptLost ==
    [][\A p \in Procs :
          RegistersFailure(p) =>
              db'.mfaChallenges[procs[p].l.challenge.id].attempts =
                  db.mfaChallenges[procs[p].l.challenge.id].attempts + 1]_vars

\* A login-challenge verifier at its consume step whose challenge is gone.
ConsumeFindsNothing(p) ==
    /\ procs[p].pc = "clc_consume"
    /\ procs'[p] # procs[p]
    /\ ~ChallengeExists(db, procs[p].l.challenge.id)

\* C32: login-challenge verification issues no session once the challenge
\* has been deleted (by lockout or expiry handling), even when the deletion
\* happens between the verifier's read of the challenge and its consume
\* step: a verifier whose consume step finds no challenge fails there and
\* stores no token.
C32_DeletedChallengeIssuesNoSession ==
    [][\A p \in Procs :
          ConsumeFindsNothing(p) =>
              /\ procs'[p].pc = "done"
              /\ procs'[p].r.outcome # "ok"
              /\ db'.refreshTokens = db.refreshTokens]_vars

\* The login calls of a client: with e-mail and password only, and with a
\* challengeId and an mfaCode next to any e-mail and password.
LoginCalls(d, t) ==
    LoginInputs(d)
    \cup {[a EXCEPT !.email = email, !.password = password] :
            a \in ChallengeInputs(d, t), email \in Emails, password \in Passwords}

\* C33: whenever login returns an authenticated result, the e-mail and the
\* password supplied in that same call were verified against the record of
\* the returned user; this also holds for calls that carry challengeId and
\* mfaCode.
C33_LoginVerifiesCredentials ==
    \A a \in LoginCalls(db, now) :
        LET res == LoginOf(db, a, now, env)
            u == res.pr.r.userId
        IN  (Outcome(res) = "ok" /\ res.pr.r.type = "authenticated") =>
                /\ findUserByEmail(db, normalizeEmail(a.email)) = u
                /\ Verify(db.users[u].passwordHash, a.password)

\* The requests that can end in issueSession for a user who exists: login
\* with and without a challenge, verifyMfaChallenge and refreshSession.
IssuingCalls(d, t) ==
    {<<"login", a>> : a \in LoginCalls(d, t)}
    \cup {<<"verifyMfaChallenge", a>> : a \in ChallengeInputs(d, t)}
    \cup {<<"refreshSession", a>> : a \in RefreshInputs(d)}

\* The refresh tokens a request stored.
NewTokens(d, res) == DOMAIN res.db.refreshTokens \ DOMAIN d.refreshTokens

\* C34: no session (refresh token) is ever issued for a user whose status
\* is suspended at the time of issuance, by any operation: login, the
\* completion of a login challenge (also of one created before the
\* suspension), or refreshSession.
C34_NoSessionForSuspendedUser ==
    \A x \in IssuingCalls(db, now) :
        LET res == Serve(db, x[1], x[2], now, env)
        IN  \A id \in NewTokens(db, res) :
                db.users[res.db.refreshTokens[id].userId].status # "suspended"

\* The verifications a client can send of a stored setup challenge whose
\* user has an active configuration.
SetupVerificationsWhileActive(d, t) ==
    {a \in ChallengeInputs(d, t) :
        /\ ChallengeExists(d, a.challengeId)
        /\ d.mfaChallenges[a.challengeId].type = "setup"
        /\ ActiveMfa(d, d.mfaChallenges[a.challengeId].userId)}

\* C35: while a user's MFA configuration is active, completing a setup
\* challenge never changes its secret or its backup-code set: a setup
\* challenge that was started before activation and is verified after
\* another setup challenge has activated MFA is rejected.
C35_ActiveConfigurationKeepsSecret ==
    \A a \in SetupVerificationsWhileActive(db, now) :
        LET res == VerifyOf(db, a, now, env)
        IN  /\ Outcome(res) # "ok"
            /\ res.db.mfaSettings = db.mfaSettings
            /\ res.db.backupCodes = db.backupCodes

\* The login calls that carry an mfaCode and the id of a stored challenge
\* whose type is not 'login'.
LoginsWithOtherChallenge(d, t) ==
    {a \in LoginCalls(d, t) :
        /\ a.code.shape # "none"
        /\ ChallengeExists(d, a.challengeId)
        /\ d.mfaChallenges[a.challengeId].type # "login"}

\* C36: only login-type challenges can produce a session: presenting the id
\* of a setup (or recovery) challenge to login together with an mfaCode
\* never yields tokens, and verifyMfaChallenge returns a result whose type
\* equals the stored type of the challenge.
C36_OnlyLoginChallengesGiveSessions ==
    /\ \A a \in LoginsWithOtherChallenge(db, now) :
          LET res == LoginOf(db, a, now, env)
          IN  Outcome(res) # "ok" /\ NewTokens(db, res) = {}
    /\ \A a \in ChallengeInputs(db, now) :
          LET res == VerifyOf(db, a, now, env)
          IN  Outcome(res) = "ok" =>
                  res.pr.r.type = db.mfaChallenges[a.challengeId].type

\* A refreshSession and a resetPassword that arrived together are both
\* over, and the reset succeeded.
ResetRacedRefresh ==
    /\ procs[1].op = "refreshSession" /\ procs[1].pc = "done"
    /\ procs[2].op = "resetPassword" /\ procs[2].pc = "done"
    /\ procs[2].r.outcome = "ok"

\* C37: after resetPassword has completed for a user, no refresh token of
\* that user derived from a session older than the reset is usable, even
\* when a refreshSession call on such a token runs concurrently with the
\* reset: any refresh token that call stores is revoked by the time both
\* calls have finished.
C37_ResetRevokesConcurrentRefresh ==
    ResetRacedRefresh =>
        Outstanding(db, db.passwordResetTokens[procs[2].a.resetToken].userId) = {}

\* The tokens that name a token as their successor.
PredecessorsOf(d, id) ==
    {x \in DOMAIN d.refreshTokens : d.refreshTokens[x].replacedByTokenId = id}

\* C38: the rotation chain of refresh tokens is linear in every reachable
\* state: replacedByTokenId of a token, once set to a successor id, is never
\* overwritten or cleared, so each token has at most one successor, and
\* each refresh token is the successor of at most one token.
C38_RotationChainIsLinear ==
    [][/\ \A id \in DOMAIN db.refreshTokens :
             db.refreshTokens[id].replacedByTokenId # 0 =>
                 db'.refreshTokens[id].replacedByTokenId =
                     db.refreshTokens[id].replacedByTokenId
       /\ \A id \in DOMAIN db'.refreshTokens :
             Cardinality(PredecessorsOf(db', id)) <= 1]_vars

\* The unexpired remembered devices of configurations other than u's.
DevicesOfOthers(d, u, t) ==
    {x \in DOMAIN d.rememberedDevices :
        /\ d.rememberedDevices[x].userMfaId # d.mfaSettings[u].id
        /\ d.rememberedDevices[x].expiresAt >= t
        /\ d.rememberedDevices[x].tokenHash = Hash(x)}

\* C39: a remembered-device token bypasses MFA only for the user whose MFA
\* configuration it was created for: presenting user A's valid token while
\* logging in as user B (correct password, active MFA) yields a challenge
\* descriptor, never a session, and does not modify A's device record.
C39_DeviceTokenBoundToItsUser ==
    \A u \in {x \in DOMAIN db.users : ActiveMfa(db, x)} :
        \A x \in DevicesOfOthers(db, u, now) :
            LET res == LoginOf(db, DeviceLogin(db, u, x), now, env)
            IN  /\ Challenged(db, res, u)
                /\ NewTokens(db, res) = {}
                /\ x \in DOMAIN res.db.rememberedDevices
                /\ res.db.rememberedDevices[x] = db.rememberedDevices[x]

\* Two users have active MFA, one of them holds an unexpired remembered
\* device whose token opens that user's own login, and the other presents
\* it with the right password and is answered with a challenge.
C39_Witness ==
    \E u \in {x \in DOMAIN db.users : ActiveMfa(db, x)} :
        \E x \in DevicesOfOthers(db, u, now) :
            /\ \E owner \in DOMAIN db.users \ {u} :
                  /\ ActiveMfa(db, owner)
                  /\ OpenedDevices(db, owner, x, now) = {x}
                  /\ Outcome(LoginOf(db, DeviceLogin(db, owner, x), now, env)) = "ok"
                  /\ LoginOf(db, DeviceLogin(db, owner, x), now, env).pr.r.type
                        = "authenticated"
            /\ LoginOf(db, DeviceLogin(db, u, x), now, env).pr.r.type = "mfa_challenge"

====
